---- MODULE Spec2Model ----
(***************************************************************************)
(* Model of the adaptive room-detection core of RoomView                   *)
(* (backend/detection).                                                    *)
(*                                                                         *)
(* Units.  Python floats are modelled exactly, as scaled integers or as    *)
(* reduced fractions [n, d]:                                               *)
(*   wall_thickness   tenths of a pixel        (8 px      -> 80)           *)
(*   line_density     1/10000 of the image     (0.05      -> 500)          *)
(*   contrast, noise  hundredths               (0.3       -> 30)           *)
(*   filled_ratio     thousandths              (0.15      -> 150)          *)
(*   area2, hull2     twice cv2.contourArea, which is a multiple of 0.5    *)
(*   weights, thresholds on scores and ratios  hundredths (0.5 -> 50)      *)
(* Contour indices are 1-based (Python's are 0-based); the parent of a     *)
(* top-level contour is -1 as in cv2's hierarchy.                          *)
(* The results of the OpenCV calls on a raster (Canny, dilate,             *)
(* findContours, contourArea, boundingRect, convexHull) are inputs of the  *)
(* model, drawn from finite catalogues.                                    *)
(***************************************************************************)
EXTENDS Integers, Sequences, FiniteSets, TLC

VARIABLES
    pc,               \* position of the operation under way
    gray,             \* what the analyzer measures on the grayscale raster
    prep_analysis,    \* preprocess_pipeline_adaptive: analysis
    mask,             \* what the analyzer measures on preprocessed['processed']
    analysis,         \* detect_rooms_adaptive: analysis
    config,           \* detect_rooms_adaptive: config
    contours,         \* findContours: contours with their hierarchy rows
    candidate_rooms,  \* detect_rooms_adaptive: candidate_rooms
    valid_rooms,      \* detect_rooms_adaptive: valid_rooms
    rooms,            \* detect_rooms_adaptive: rooms
    rooms_in,         \* remove_duplicates: its argument rooms
    edge_widths,      \* estimate_wall_thickness: min(w, h) of contours[:50]
    filled_ratios,    \* estimate_wall_thickness: filled_ratio of iterations 1..i
    thicknesses,      \* estimate_wall_thickness: thicknesses
    avg_thickness,    \* estimate_wall_thickness: the value returned
    scored,           \* calls of calculate_room_confidence_score and their results
    edge_image,       \* _verify_partial_arc: edge_image at the 36 sampled points
    circle,           \* _detect_door_arcs: the circle (x, y, r) under test
    is_partial,       \* _detect_door_arcs: is_partial
    doorways,         \* detect_doorways: doorways
    doorways_in,      \* detect_doorways: doorways as the last stage received it
    door_rooms,       \* detect_doorways: its argument rooms
    door_config,      \* DoorwayDetector: self.config
    items,            \* normalize_coordinates: items
    original_shape,   \* normalize_coordinates: original_shape
    pixel_box,        \* denormalize_coordinates: the dictionary returned
    shared,           \* config.py, opencv_detector_improved.py: the module-level dictionaries
    call,             \* the configuration call made last and its arguments
    raised,           \* the exception the last call raised, if any
    returned,         \* what the last call returned
    image,            \* detect_rooms_adaptive: image, a raster of one intensity
    inv,              \* the local variables of each concurrent invocation
    debug_viz,        \* debug_visualizer.py: the global instance and the file it saves
    upload,           \* lambda_handler, detect: the handler called and image_data
    exception,        \* the exception in flight in the handler
    response,         \* the handler's answer
    ground_truth_rooms, \* match_rooms: ground_truth_rooms
    match_detected,   \* match_rooms: detected_rooms
    match_threshold,  \* match_rooms: iou_threshold, in hundredths
    iou_matrix,       \* match_rooms: iou_matrix
    matches,          \* match_rooms: matches
    matched_gt,       \* match_rooms: matched_gt
    matched_det,      \* match_rooms: matched_det
    unmatched_gt,     \* match_rooms: unmatched_gt
    unmatched_det     \* match_rooms: unmatched_det

vars == <<pc, gray, prep_analysis, mask, analysis, config, contours,
          candidate_rooms, valid_rooms, rooms, rooms_in, edge_widths,
          filled_ratios, thicknesses, avg_thickness, scored,
          edge_image, circle, is_partial, doorways, doorways_in, door_rooms,
          door_config, items, original_shape, pixel_box,
          shared, call, raised, returned, image, inv, debug_viz,
          upload, exception, response,
          ground_truth_rooms, match_detected, match_threshold, iou_matrix,
          matches, matched_gt, matched_det, unmatched_gt, unmatched_det>>

pipeVars == <<gray, prep_analysis, mask, analysis, config, contours,
              candidate_rooms, valid_rooms, rooms, rooms_in>>
thickVars == <<edge_widths, filled_ratios, thicknesses, avg_thickness>>

doorVars == <<edge_image, circle, is_partial, doorways, doorways_in,
              door_rooms, door_config>>
normVars == <<items, original_shape, pixel_box>>
cfgVars == <<shared, call, raised, returned>>
uniVars == <<image>>
concVars == <<inv, debug_viz>>
reqVars == <<upload, exception, response>>
matchVars == <<ground_truth_rooms, match_detected, match_threshold, iou_matrix,
               matches, matched_gt, matched_det, unmatched_gt, unmatched_det>>
lateVars == <<cfgVars, uniVars, concVars, reqVars, matchVars>>

None == "none"

\* No room detection under way.
RoomIdle ==
    /\ gray = None /\ prep_analysis = None /\ mask = None /\ analysis = None
    /\ config = None /\ contours = <<>> /\ candidate_rooms = <<>>
    /\ valid_rooms = <<>> /\ rooms = <<>> /\ rooms_in = <<>>
    /\ edge_widths = <<>> /\ filled_ratios = <<>> /\ thicknesses = <<>>
    /\ avg_thickness = -1 /\ scored = <<>>

\* No doorway detection and no normalization under way.
DoorIdle ==
    /\ edge_image = <<>> /\ circle = None /\ is_partial = None
    /\ doorways = <<>> /\ doorways_in = <<>> /\ door_rooms = None
    /\ door_config = None
NormIdle == items = <<>> /\ original_shape = None /\ pixel_box = None
CfgIdle == shared = None /\ call = None /\ raised = None /\ returned = None
UniIdle == image = None
ConcIdle == inv = <<>> /\ debug_viz = None
ReqIdle == upload = None /\ exception = None /\ response = None
MatchIdle ==
    /\ ground_truth_rooms = <<>> /\ match_detected = <<>> /\ match_threshold = None
    /\ iou_matrix = <<>> /\ matches = <<>> /\ matched_gt = {} /\ matched_det = {}
    /\ unmatched_gt = <<>> /\ unmatched_det = <<>>
LateIdle == CfgIdle /\ UniIdle /\ ConcIdle /\ ReqIdle /\ MatchIdle

-----------------------------------------------------------------------------
(* Arithmetic helpers: exact fractions stand for Python floats.            *)

Max(a, b) == IF a >= b THEN a ELSE b
Min(a, b) == IF a <= b THEN a ELSE b
Abs(a) == IF a < 0 THEN -a ELSE a

RECURSIVE GCD(_, _)
GCD(a, b) == IF b = 0 THEN a ELSE GCD(b, a % b)

\* The fraction n/d in lowest terms, d > 0.
Frac(n, d) ==
    LET g == GCD(Abs(n), Abs(d))
        s == IF d < 0 THEN -1 ELSE 1
    IN  IF g = 0 THEN [n |-> 0, d |-> 1]
        ELSE [n |-> s * (n \div g), d |-> s * (d \div g)]

FZero == [n |-> 0, d |-> 1]
FOne == [n |-> 1, d |-> 1]
FAdd(a, b) == Frac(a.n * b.d + b.n * a.d, a.d * b.d)
FMul(a, b) == Frac(a.n * b.n, a.d * b.d)
FLeq(a, b) == a.n * b.d <= b.n * a.d
FLt(a, b) == a.n * b.d < b.n * a.d
FMin(a, b) == IF FLeq(a, b) THEN a ELSE b
FSub(a, b) == Frac(a.n * b.d - b.n * a.d, a.d * b.d)
FInt(k) == [n |-> k, d |-> 1]
\* float('inf'): above every finite fraction under FLeq and FLt.
FInf == [n |-> 1, d |-> 0]

\* round(x, 2) of a non-negative x, in hundredths; a tie goes to the even
\* neighbour.
Round2(x) ==
    LET q == (100 * x.n) \div x.d
        r == (100 * x.n) % x.d
    IN  IF 2 * r < x.d THEN q
        ELSE IF 2 * r > x.d THEN q + 1
        ELSE IF q % 2 = 0 THEN q ELSE q + 1

Range(s) == {s[i] : i \in DOMAIN s}

\* The elements of a finite set of integers, ascending.
RECURSIVE AscSeq(_)
AscSeq(S) ==
    IF S = {} THEN <<>>
    ELSE LET m == CHOOSE x \in S : \A y \in S : x <= y
         IN  <<m>> \o AscSeq(S \ {m})

RECURSIVE SumSeq(_)
SumSeq(s) == IF s = <<>> THEN 0 ELSE Head(s) + SumSeq(Tail(s))

\* Python's sorted(..., key=lambda r: r[f], reverse=True) and
\* list.sort(key=..., reverse=True): descending by field f, and stable (equal
\* keys keep their order).
SortDesc(s, f) ==
    LET rank == [i \in DOMAIN s |->
                    Cardinality({j \in DOMAIN s : s[j][f] > s[i][f]})
                    + Cardinality({j \in 1..i : s[j][f] = s[i][f]})]
    IN  [p \in DOMAIN s |-> s[CHOOSE i \in DOMAIN s : rank[i] = p]]

-----------------------------------------------------------------------------
(* blueprint_analyzer.py                                                   *)

StyleTags == {"clean_cad", "detailed_cad", "simple_line_drawing",
              "detailed_line_drawing", "scanned", "mixed_style"}

\* A table with a gap: thin walls are those strictly below 8 px.
classify_blueprint_style_ThinBelow(wall_thickness, line_density, contrast, noise) ==
    IF wall_thickness > 80 /\ line_density < 500 THEN "clean_cad"
    ELSE IF wall_thickness > 80 /\ line_density >= 500 THEN "detailed_cad"
    ELSE IF wall_thickness < 80 /\ line_density < 500 THEN "simple_line_drawing"
    ELSE IF wall_thickness < 80 /\ line_density >= 500 THEN "detailed_line_drawing"
    ELSE IF noise > 30 THEN "scanned"
    ELSE "mixed_style"

\* A mis-ordered table: the noise test first.
classify_blueprint_style_NoiseFirst(wall_thickness, line_density, contrast, noise) ==
    IF noise > 30 THEN "scanned"
    ELSE IF wall_thickness > 80 /\ line_density < 500 THEN "clean_cad"
    ELSE IF wall_thickness > 80 /\ line_density >= 500 THEN "detailed_cad"
    ELSE IF wall_thickness <= 80 /\ line_density < 500 THEN "simple_line_drawing"
    ELSE IF wall_thickness <= 80 /\ line_density >= 500 THEN "detailed_line_drawing"
    ELSE "mixed_style"

classify_blueprint_style(wall_thickness, line_density, contrast, noise) ==
    IF wall_thickness > 80 /\ line_density < 500 THEN "clean_cad"
    ELSE IF wall_thickness > 80 /\ line_density >= 500 THEN "detailed_cad"
    ELSE IF wall_thickness <= 80 /\ line_density < 500 THEN "simple_line_drawing"
    ELSE IF wall_thickness <= 80 /\ line_density >= 500 THEN "detailed_line_drawing"
    ELSE IF noise > 30 THEN "scanned"
    ELSE "mixed_style"

\* The parameters after the style's overrides (lines 201-243).
BaseParams(style) ==
    LET params == [morph_open_size |-> 5, min_room_area_pixels |-> 5000,
                   min_solidity |-> 60, denoise_strength |-> 10,
                   morph_close_size |-> 3, fill_hollow_rooms |-> FALSE]
    IN  CASE style = "clean_cad" ->
               [params EXCEPT !.morph_open_size = 3, !.min_room_area_pixels = 4000,
                              !.denoise_strength = 5, !.morph_close_size = 7,
                              !.fill_hollow_rooms = TRUE]
          [] style = "detailed_cad" ->
               [params EXCEPT !.morph_open_size = 9, !.min_room_area_pixels = 8000,
                              !.denoise_strength = 10, !.fill_hollow_rooms = TRUE]
          [] style = "simple_line_drawing" ->
               [params EXCEPT !.morph_open_size = 2, !.min_room_area_pixels = 3000,
                              !.morph_close_size = 5, !.denoise_strength = 5]
          [] style = "detailed_line_drawing" ->
               [params EXCEPT !.morph_open_size = 5, !.min_room_area_pixels = 5000,
                              !.morph_close_size = 4]
          [] style = "scanned" ->
               [params EXCEPT !.morph_open_size = 6, !.denoise_strength = 15,
                              !.min_room_area_pixels = 6000]
          [] OTHER -> params

\* The line-density correction without its clamp.
get_adaptive_parameters_Unclamped(style, wall_thickness, line_density, contrast) ==
    LET p0 == BaseParams(style)
        open ==
            IF line_density > 800 THEN p0.morph_open_size + 2
            ELSE IF line_density < 300 THEN p0.morph_open_size - 2
            ELSE p0.morph_open_size
        area ==
            IF wall_thickness > 100 THEN (p0.min_room_area_pixels * 8) \div 10
            ELSE IF wall_thickness < 50 THEN (p0.min_room_area_pixels * 12) \div 10
            ELSE p0.min_room_area_pixels
        solidity == IF style \in {"clean_cad", "detailed_cad"} THEN 20 ELSE 30
    IN  [p0 EXCEPT !.morph_open_size = open, !.min_room_area_pixels = area,
                   !.min_solidity = solidity]

\* int(x * 0.8) and int(x * 1.2) of the base areas: the float products are the
\* exact integers for every base value of BaseParams.
get_adaptive_parameters(style, wall_thickness, line_density, contrast) ==
    LET p0 == BaseParams(style)
        open ==
            IF line_density > 800 THEN Min(p0.morph_open_size + 2, 11)
            ELSE IF line_density < 300 THEN Max(p0.morph_open_size - 2, 2)
            ELSE p0.morph_open_size
        area ==
            IF wall_thickness > 100 THEN (p0.min_room_area_pixels * 8) \div 10
            ELSE IF wall_thickness < 50 THEN (p0.min_room_area_pixels * 12) \div 10
            ELSE p0.min_room_area_pixels
        solidity == IF style \in {"clean_cad", "detailed_cad"} THEN 20 ELSE 30
    IN  [p0 EXCEPT !.morph_open_size = open, !.min_room_area_pixels = area,
                   !.min_solidity = solidity]

\* m: the four measurements of a raster (estimate_wall_thickness,
\* estimate_line_density, estimate_contrast, estimate_noise).
analyze_blueprint_characteristics(m) ==
    LET style == classify_blueprint_style(m.wall_thickness, m.line_density,
                                          m.contrast_level, m.noise_level)
    IN  [style |-> style,
         wall_thickness |-> m.wall_thickness,
         line_density |-> m.line_density,
         contrast_level |-> m.contrast_level,
         noise_level |-> m.noise_level,
         recommended_params |->
             get_adaptive_parameters(style, m.wall_thickness, m.line_density,
                                     m.contrast_level)]

-----------------------------------------------------------------------------
(* opencv_detector_improved.py                                             *)

\* The module-level defaults; ratios and thresholds in hundredths.
DETECTION_CONFIG ==
    [min_room_area_pixels |-> 5000,
     max_room_area_pixels |-> 500000,
     min_room_dimension |-> 50,
     min_aspect_ratio |-> 20,
     max_aspect_ratio |-> 800,
     hallway_aspect_ratio |-> 400,
     min_area_ratio_to_parent |-> 5,
     max_area_ratio_to_parent |-> 85,
     min_solidity |-> 60,
     min_extent |-> 50,
     iou_threshold |-> 50,
     max_rooms |-> 50]

\* A contour c is a record [x, y, w, h, area2, hull2, parent]: cv2.boundingRect
\* gives (x, y, w, h), cv2.contourArea gives area2 / 2, the area of its convex
\* hull is hull2 / 2, and parent is hierarchy[idx][3].

extract_rooms_from_hierarchy_Inclusive(cs) ==
    AscSeq({idx \in 1..Len(cs) :
        /\ cs[idx].parent # -1
        /\ ~(cs[idx].area2 < 2 * DETECTION_CONFIG.min_room_area_pixels)
        /\ ~(cs[idx].area2 > 2 * DETECTION_CONFIG.max_room_area_pixels)
        /\ LET parent_area2 == cs[cs[idx].parent].area2
           IN  /\ parent_area2 > 0
               /\ DETECTION_CONFIG.min_area_ratio_to_parent * parent_area2
                      <= 100 * cs[idx].area2
               /\ 100 * cs[idx].area2
                      <= DETECTION_CONFIG.max_area_ratio_to_parent * parent_area2})

extract_rooms_from_hierarchy(cs) ==
    AscSeq({idx \in 1..Len(cs) :
        /\ cs[idx].parent # -1
        /\ ~(cs[idx].area2 < 2 * DETECTION_CONFIG.min_room_area_pixels)
        /\ ~(cs[idx].area2 > 2 * DETECTION_CONFIG.max_room_area_pixels)
        /\ LET parent_area2 == cs[cs[idx].parent].area2
           IN  /\ parent_area2 > 0
               /\ DETECTION_CONFIG.min_area_ratio_to_parent * parent_area2
                      < 100 * cs[idx].area2
               /\ 100 * cs[idx].area2
                      < DETECTION_CONFIG.max_area_ratio_to_parent * parent_area2})

calculate_iou(box1, box2) ==
    LET x_inter_min == Max(box1[1], box2[1])
        y_inter_min == Max(box1[2], box2[2])
        x_inter_max == Min(box1[3], box2[3])
        y_inter_max == Min(box1[4], box2[4])
        intersection == (x_inter_max - x_inter_min) * (y_inter_max - y_inter_min)
        area1 == (box1[3] - box1[1]) * (box1[4] - box1[2])
        area2 == (box2[3] - box2[1]) * (box2[4] - box2[2])
        union == area1 + area2 - intersection
    IN  IF x_inter_max < x_inter_min \/ y_inter_max < y_inter_min THEN FZero
        ELSE IF union = 0 THEN FZero
        ELSE Frac(intersection, union)

\* The sweep of remove_duplicates from position i on (lines 325-341).
RECURSIVE DuplicateSweep(_, _, _, _, _)
DuplicateSweep(rooms_sorted, i, keep, skip_indices, iou_threshold) ==
    IF i > Len(rooms_sorted) THEN keep
    ELSE IF i \in skip_indices
        THEN DuplicateSweep(rooms_sorted, i + 1, keep, skip_indices, iou_threshold)
    ELSE LET hit == {j \in (i + 1)..Len(rooms_sorted) :
                        /\ j \notin skip_indices
                        /\ FLt(Frac(iou_threshold, 100),
                               calculate_iou(rooms_sorted[i].bounding_box,
                                             rooms_sorted[j].bounding_box))}
         IN  DuplicateSweep(rooms_sorted, i + 1, Append(keep, rooms_sorted[i]),
                            skip_indices \cup hit, iou_threshold)

\* Without the test "if i in skip_indices: continue": every room is kept.
remove_duplicates_KeepSkipped(rs, iou_threshold) ==
    IF Len(rs) <= 1 THEN rs ELSE SortDesc(rs, "confidence_score")

\* Sorted without reverse=True: the sweep starts at the lowest confidence.
remove_duplicates_Ascending(rs, iou_threshold) ==
    IF Len(rs) <= 1 THEN rs
    ELSE LET desc == SortDesc(rs, "confidence_score")
             asc == [i \in 1..Len(desc) |-> desc[Len(desc) + 1 - i]]
         IN  DuplicateSweep(asc, 1, <<>>, {}, iou_threshold)

remove_duplicates(rs, iou_threshold) ==
    IF Len(rs) <= 1 THEN rs
    ELSE DuplicateSweep(SortDesc(rs, "confidence_score"), 1, <<>>, {},
                        iou_threshold)

-----------------------------------------------------------------------------
(* blueprint_analyzer.py: get_scale_context                                *)

RECURSIVE InsertAsc(_, _)
InsertAsc(x, s) ==
    IF s = <<>> THEN <<x>>
    ELSE IF x < Head(s) THEN <<x>> \o s
    ELSE <<Head(s)>> \o InsertAsc(x, Tail(s))

RECURSIVE SortAsc(_)
SortAsc(s) == IF s = <<>> THEN <<>> ELSE InsertAsc(Head(s), SortAsc(Tail(s)))

\* Twice np.median of a non-empty list of integers.
Median2(areas) ==
    LET s == SortAsc(areas)
        n == Len(areas)
    IN  IF n % 2 = 1 THEN 2 * s[(n + 1) \div 2]
        ELSE s[n \div 2] + s[n \div 2 + 1]

RECURSIVE GCDSeq(_)
GCDSeq(s) == IF s = <<>> THEN 0 ELSE GCD(Head(s), GCDSeq(Tail(s)))

\* area < min_reasonable_area of a non-empty list, that is
\* area < max(median_area - 2 * std_area, median_area * 0.3) with np.std the
\* population standard deviation: n^2 * std^2 = n * sum(a^2) - sum(a)^2.  All
\* quantities are taken in units of u, a common divisor of the areas.
BelowMinReasonable(area, detected_rooms) ==
    LET areas == [i \in DOMAIN detected_rooms |-> detected_rooms[i].area_pixels]
        u == Max(GCD(GCDSeq(areas), area), 1)
        a == area \div u
        s == [i \in DOMAIN areas |-> areas[i] \div u]
        n == Len(s)
        m2 == Median2(s)
        sum == SumSeq(s)
        sumsq == SumSeq([i \in DOMAIN s |-> s[i] * s[i]])
    IN  \/ /\ m2 > 2 * a
           /\ n * n * (m2 - 2 * a) * (m2 - 2 * a) > 16 * (n * sumsq - sum * sum)
        \/ 20 * a < 3 * m2

\* median_area2 is twice median_area, outlier_threshold8 is eight times
\* outlier_threshold (median_area * 0.25).  std_area and min_reasonable_area
\* are returned too and read by no caller; BelowMinReasonable compares with
\* the latter.
get_scale_context(detected_rooms) ==
    IF detected_rooms = <<>> THEN [median_area2 |-> 0, outlier_threshold8 |-> 0]
    ELSE LET m2 == Median2([i \in DOMAIN detected_rooms |->
                               detected_rooms[i].area_pixels])
         IN  [median_area2 |-> m2, outlier_threshold8 |-> m2]

-----------------------------------------------------------------------------
(* opencv_detector_adaptive.py                                             *)

\* "elif aspect_ratio < 8": the ratio 8 itself scores 0.
AspectScore_StrictEight(aspect_ratio) ==
    IF FLeq(aspect_ratio, FInt(3)) THEN FOne
    ELSE IF FLt(aspect_ratio, FInt(8))
        THEN FSub(FOne, FMul(FMul(FSub(aspect_ratio, FInt(3)), Frac(1, 5)),
                             Frac(1, 2)))
    ELSE FZero

\* Lines 49-54: aspect_score of an aspect_ratio.
AspectScore(aspect_ratio) ==
    IF FLeq(aspect_ratio, FInt(3)) THEN FOne
    ELSE IF FLeq(aspect_ratio, FInt(8))
        THEN FSub(FOne, FMul(FMul(FSub(aspect_ratio, FInt(3)), Frac(1, 5)),
                             Frac(1, 2)))
    ELSE FZero

\* The CAD vector with extent at 0.3: the weights sum to 1.1.
StyleWeights_HeavyExtent(style) ==
    IF style \in {"clean_cad", "detailed_cad"}
        THEN [solidity |-> 10, extent |-> 30, aspect_ratio |-> 50, size |-> 20]
    ELSE IF style \in {"simple_line_drawing", "detailed_line_drawing"}
        THEN [solidity |-> 30, extent |-> 30, aspect_ratio |-> 30, size |-> 10]
    ELSE [solidity |-> 25, extent |-> 25, aspect_ratio |-> 30, size |-> 20]

\* Lines 67-91: the weight vector of a style, in hundredths.
StyleWeights(style) ==
    IF style \in {"clean_cad", "detailed_cad"}
        THEN [solidity |-> 10, extent |-> 20, aspect_ratio |-> 50, size |-> 20]
    ELSE IF style \in {"simple_line_drawing", "detailed_line_drawing"}
        THEN [solidity |-> 30, extent |-> 30, aspect_ratio |-> 30, size |-> 10]
    ELSE [solidity |-> 25, extent |-> 25, aspect_ratio |-> 30, size |-> 20]

\* Returns the metrics dict, whose final_score is the score returned.
calculate_room_confidence_score(contour, style) ==
    LET w == contour.w
        h == contour.h
        solidity == IF contour.hull2 > 0 THEN Frac(contour.area2, contour.hull2)
                    ELSE FZero
        bbox_area == w * h
        extent == IF bbox_area > 0 THEN Frac(contour.area2, 2 * bbox_area)
                  ELSE FZero
        aspect_ratio == IF Min(w, h) > 0 THEN Frac(Max(w, h), Min(w, h)) ELSE FInf
        aspect_score == AspectScore(aspect_ratio)
        solidity_score == FMin(solidity, FOne)
        extent_score == FMin(extent, FOne)
        size_score == IF 2 * 5000 < contour.area2 /\ contour.area2 < 2 * 100000
                      THEN FOne ELSE Frac(1, 2)
        weights == StyleWeights(style)
        score ==
            FAdd(FAdd(FAdd(FMul(Frac(weights.solidity, 100), solidity_score),
                           FMul(Frac(weights.extent, 100), extent_score)),
                      FMul(Frac(weights.aspect_ratio, 100), aspect_score)),
                 FMul(Frac(weights.size, 100), size_score))
    IN  [solidity |-> solidity, extent |-> extent, aspect_ratio |-> aspect_ratio,
         solidity_score |-> solidity_score, extent_score |-> extent_score,
         aspect_score |-> aspect_score, size_score |-> size_score,
         weights |-> weights, final_score |-> score]

extract_rooms_by_size(cs, cfg) ==
    AscSeq({idx \in 1..Len(cs) :
        /\ 2 * cfg.min_room_area_pixels < cs[idx].area2
        /\ cs[idx].area2 < 2 * cfg.max_room_area_pixels})

\* The fallback taken below 5 candidates instead of below 3.
HybridCandidates_BelowFive(hier, cs, cfg) ==
    IF Len(hier) < 5
        THEN AscSeq(Range(hier) \cup Range(extract_rooms_by_size(cs, cfg)))
    ELSE hier

\* Lines 167-173.  list(set(...)) of small non-negative integers iterates in
\* ascending order.
HybridCandidates(hier, cs, cfg) ==
    IF Len(hier) < 3
        THEN AscSeq(Range(hier) \cup Range(extract_rooms_by_size(cs, cfg)))
    ELSE hier

\* Lines 302-305: min_score_threshold, in hundredths.
min_score_threshold == 30

filter_by_room_characteristics_adaptive(candidate_indices, cs, cfg, style) ==
    LET Accepted(idx) ==
            /\ ~(cs[idx].w < cfg.min_room_dimension
                    \/ cs[idx].h < cfg.min_room_dimension)
            /\ ~FLt(calculate_room_confidence_score(cs[idx], style).final_score,
                    Frac(min_score_threshold, 100))
    IN  SelectSeq(candidate_indices, Accepted)

\* Lines 189-214: the room built from valid_rooms[k] (idx = k - 1); the
\* polygon is left out.
RoomOf(k, valid, cs, cfg, style) ==
    LET contour == cs[valid[k]]
        confidence == calculate_room_confidence_score(contour, style).final_score
        aspect_ratio == IF Min(contour.w, contour.h) > 0
                        THEN Frac(Max(contour.w, contour.h), Min(contour.w, contour.h))
                        ELSE FOne
    IN  [id |-> k - 1,
         bounding_box |-> <<contour.x, contour.y,
                            contour.x + contour.w, contour.y + contour.h>>,
         confidence_score |-> Round2(confidence),
         type_hint |-> IF FLt(Frac(cfg.hallway_aspect_ratio, 100), aspect_ratio)
                       THEN "hallway" ELSE "room",
         area_pixels |-> contour.area2 \div 2]

\* An outlier threshold of 2.5 times the median instead of 0.25.
ScaleFilter_TenfoldThreshold(rs) ==
    IF Len(rs) > 3
        THEN LET scale_context == get_scale_context(rs)
                 Kept(r) == 8 * r.area_pixels >= 10 * scale_context.outlier_threshold8
             IN  SelectSeq(rs, Kept)
    ELSE rs

\* The filter on min_reasonable_area instead of outlier_threshold.
ScaleFilter_MinReasonable(rs) ==
    IF Len(rs) > 3
        THEN LET Kept(r) == ~BelowMinReasonable(r.area_pixels, rs)
             IN  SelectSeq(rs, Kept)
    ELSE rs

\* Lines 216-230.
ScaleFilter(rs) ==
    IF Len(rs) > 3
        THEN LET scale_context == get_scale_context(rs)
                 Kept(r) == 8 * r.area_pixels >= scale_context.outlier_threshold8
             IN  SelectSeq(rs, Kept)
    ELSE rs

\* The truncation before the sort.
SortAndLimit_TruncateFirst(rs, cfg) ==
    IF Len(rs) > cfg.max_rooms
        THEN SortDesc(SubSeq(rs, 1, cfg.max_rooms), "area_pixels")
    ELSE SortDesc(rs, "area_pixels")

\* Lines 238-244.
SortAndLimit(rs, cfg) ==
    LET sorted == SortDesc(rs, "area_pixels")
    IN  IF Len(sorted) > cfg.max_rooms THEN SubSeq(sorted, 1, cfg.max_rooms)
        ELSE sorted

-----------------------------------------------------------------------------
(* Inputs of the adaptive pipeline                                         *)

\* The most contours findContours returns in a modelled run.
MaxContours == 4

\* The regions findContours can trace, as (x, y, w, h, area2, hull2): a wall
\* loop (1), two rooms tracing nearly the same box (2, 3), a room (4), a
\* solid and a hollow 10:1 sliver (5, 6), a region 40 px wide (7), a 6:1
\* hallway (8) and a closet of area exactly 4000 (9).  Regions 2, 3, 4, 7 and
\* 8 lie inside region 1.
Catalogue ==
    << [x |-> 100, y |-> 100, w |-> 400, h |-> 300, area2 |-> 200000, hull2 |-> 200000],
       [x |-> 110, y |-> 110, w |-> 100, h |-> 80, area2 |-> 12000, hull2 |-> 15000],
       [x |-> 115, y |-> 110, w |-> 100, h |-> 80, area2 |-> 12801, hull2 |-> 12801],
       [x |-> 250, y |-> 110, w |-> 200, h |-> 150, area2 |-> 50000, hull2 |-> 50000],
       [x |-> 100, y |-> 450, w |-> 500, h |-> 50, area2 |-> 40000, hull2 |-> 40000],
       [x |-> 100, y |-> 520, w |-> 500, h |-> 50, area2 |-> 10000, hull2 |-> 40000],
       [x |-> 320, y |-> 200, w |-> 40, h |-> 200, area2 |-> 12000, hull2 |-> 12000],
       [x |-> 110, y |-> 330, w |-> 360, h |-> 60, area2 |-> 40000, hull2 |-> 40000],
       [x |-> 620, y |-> 100, w |-> 80, h |-> 50, area2 |-> 8000, hull2 |-> 8000] >>

\* Region a can be the parent of region b: b lies inside a.
Encloses(a, b) ==
    /\ a.x <= b.x /\ b.x + b.w <= a.x + a.w
    /\ a.y <= b.y /\ b.y + b.h <= a.y + a.h
    /\ b.area2 < a.area2

\* The hierarchies of the first k regions of a list of catalogue regions: each
\* region has parent -1 or an earlier region of the list that encloses it.
RECURSIVE ParentVectors(_, _)
ParentVectors(order, k) ==
    IF k = 0 THEN {<<>>}
    ELSE { Append(pv, q) :
             pv \in ParentVectors(order, k - 1),
             q \in {-1} \cup {j \in 1..(k - 1) :
                                 Encloses(Catalogue[order[j]], Catalogue[order[k]])} }

\* The contour lists of at most MaxContours catalogue regions, in catalogue
\* order, with their hierarchies.
Images ==
    UNION { LET order == AscSeq(S)
            IN  { [i \in DOMAIN order |->
                      [x |-> Catalogue[order[i]].x, y |-> Catalogue[order[i]].y,
                       w |-> Catalogue[order[i]].w, h |-> Catalogue[order[i]].h,
                       area2 |-> Catalogue[order[i]].area2,
                       hull2 |-> Catalogue[order[i]].hull2,
                       parent |-> pv[i]]] : pv \in ParentVectors(order, Len(order)) }
          : S \in {T \in SUBSET DOMAIN Catalogue : Cardinality(T) <= MaxContours} }

Measurement(t, d, c, n) ==
    [wall_thickness |-> t, line_density |-> d, contrast_level |-> c, noise_level |-> n]

\* Measurements of the grayscale raster, and of the binary mask made from it.
GrayMeasurements == {Measurement(100, 300, 150, 20), Measurement(60, 600, 150, 20)}
MaskMeasurements == {Measurement(90, 300, 200, 40), Measurement(90, 600, 200, 40),
                     Measurement(60, 300, 200, 40), Measurement(120, 900, 200, 40)}

-----------------------------------------------------------------------------
(* The adaptive pipeline: preprocess_pipeline_adaptive, then               *)
(* detect_rooms_adaptive on its result.                                    *)

Idle ==
    /\ gray = None /\ prep_analysis = None /\ mask = None /\ analysis = None
    /\ config = None /\ contours = <<>> /\ candidate_rooms = <<>>
    /\ valid_rooms = <<>> /\ rooms = <<>> /\ rooms_in = <<>>
    /\ edge_widths = <<>> /\ filled_ratios = <<>> /\ thicknesses = <<>>
    /\ avg_thickness = -1 /\ scored = <<>>
    /\ DoorIdle /\ NormIdle /\ LateIdle

Init == pc = "start" /\ Idle

\* preprocessing_adaptive.py lines 72-121: the analysis of the grayscale raster
\* picks the conditioner's parameters, and is returned under 'analysis'.
Preprocess ==
    /\ pc = "start"
    /\ \E m \in GrayMeasurements :
          /\ gray' = m
          /\ prep_analysis' = analyze_blueprint_characteristics(m)
    /\ pc' = "preprocessed"
    /\ UNCHANGED <<mask, analysis, config, contours, candidate_rooms, valid_rooms,
                   rooms, rooms_in, thickVars, scored, doorVars, normVars, lateVars>>

\* Lines 131-145: step 0, the analysis of preprocessed['processed'], and the
\* configuration of the run.
Step0Analyze ==
    /\ pc = "preprocessed"
    /\ \E m \in MaskMeasurements :
          /\ mask' = m
          /\ analysis' = analyze_blueprint_characteristics(m)
          /\ config' =
                [DETECTION_CONFIG EXCEPT
                    !.min_room_area_pixels =
                        analyze_blueprint_characteristics(m).recommended_params
                            .min_room_area_pixels,
                    !.min_solidity =
                        analyze_blueprint_characteristics(m).recommended_params
                            .min_solidity]
    /\ pc' = "step1"
    /\ UNCHANGED <<gray, prep_analysis, contours, candidate_rooms, valid_rooms,
                   rooms, rooms_in, thickVars, scored, doorVars, normVars, lateVars>>

\* Lines 147-159.
Step1FindContours ==
    /\ pc = "step1"
    /\ \E cs \in Images :
          /\ contours' = cs
          /\ pc' = IF Len(cs) = 0 THEN "done" ELSE "step2"
    /\ UNCHANGED <<gray, prep_analysis, mask, analysis, config, candidate_rooms,
                   valid_rooms, rooms, rooms_in, thickVars, scored, doorVars, normVars, lateVars>>

\* Lines 161-173.
Step2Candidates ==
    /\ pc = "step2"
    /\ candidate_rooms' =
          HybridCandidates(extract_rooms_from_hierarchy(contours), contours, config)
    /\ pc' = "step3"
    /\ UNCHANGED <<gray, prep_analysis, mask, analysis, config, contours,
                   valid_rooms, rooms, rooms_in, thickVars, scored, doorVars, normVars, lateVars>>

\* Lines 175-184.
Step3Filter ==
    /\ pc = "step3"
    /\ valid_rooms' = filter_by_room_characteristics_adaptive(
                          candidate_rooms, contours, config, analysis.style)
    /\ pc' = "step4"
    /\ UNCHANGED <<gray, prep_analysis, mask, analysis, config, contours,
                   candidate_rooms, rooms, rooms_in, thickVars, scored, doorVars, normVars, lateVars>>

\* Lines 186-214.
Step4Rooms ==
    /\ pc = "step4"
    /\ rooms' = [k \in DOMAIN valid_rooms |->
                    RoomOf(k, valid_rooms, contours, config, analysis.style)]
    /\ pc' = "step5"
    /\ UNCHANGED <<gray, prep_analysis, mask, analysis, config, contours,
                   candidate_rooms, valid_rooms, rooms_in, thickVars, scored, doorVars, normVars, lateVars>>

\* Lines 216-230.
Step5Scale ==
    /\ pc = "step5"
    /\ rooms' = ScaleFilter(rooms)
    /\ pc' = "step6"
    /\ UNCHANGED <<gray, prep_analysis, mask, analysis, config, contours,
                   candidate_rooms, valid_rooms, rooms_in, thickVars, scored, doorVars, normVars, lateVars>>

\* Lines 232-236.
Step6Duplicates ==
    /\ pc = "step6"
    /\ rooms_in' = rooms
    /\ rooms' = remove_duplicates(rooms, config.iou_threshold)
    /\ pc' = "step7"
    /\ UNCHANGED <<gray, prep_analysis, mask, analysis, config, contours,
                   candidate_rooms, valid_rooms, thickVars, scored, doorVars, normVars, lateVars>>

\* Lines 238-256.
Step7SortLimit ==
    /\ pc = "step7"
    /\ rooms' = SortAndLimit(rooms, config)
    /\ pc' = "done"
    /\ UNCHANGED <<gray, prep_analysis, mask, analysis, config, contours,
                   candidate_rooms, valid_rooms, rooms_in, thickVars, scored, doorVars, normVars, lateVars>>

Next ==
    \/ Preprocess
    \/ Step0Analyze
    \/ Step1FindContours
    \/ Step2Candidates
    \/ Step3Filter
    \/ Step4Rooms
    \/ Step5Scale
    \/ Step6Duplicates
    \/ Step7SortLimit

Spec == Init /\ [][Next]_vars

-----------------------------------------------------------------------------
(* Duplicate resolution on its own: steps 6 and 7 of detect_rooms_adaptive *)
(* on any list of rooms.                                                   *)

\* The longest list of rooms handed to remove_duplicates.
MaxRooms == 3

\* Bounding boxes [x_min, y_min, x_max, y_max] with their area_pixels: a chain
\* 1-2-3 (IoU 7/13 between neighbours, 1/4 between 1 and 3) and a box at IoU
\* exactly 1/2 with box 1.
DedupBoxes ==
    { [bounding_box |-> <<0, 0, 100, 100>>, area_pixels |-> 9000],
      [bounding_box |-> <<30, 0, 130, 100>>, area_pixels |-> 8000],
      [bounding_box |-> <<60, 0, 160, 100>>, area_pixels |-> 9500],
      [bounding_box |-> <<0, 0, 100, 50>>, area_pixels |-> 4500] }

DedupConfidences == {50, 70, 90}

RoomLists(n) ==
    { [i \in 1..n |->
         [id |-> i - 1,
          bounding_box |-> b[i].bounding_box,
          confidence_score |-> c[i],
          type_hint |-> "room",
          area_pixels |-> b[i].area_pixels]]
      : b \in [1..n -> DedupBoxes], c \in [1..n -> DedupConfidences] }

InitDedup ==
    /\ pc = "step6"
    /\ \E n \in 0..MaxRooms : rooms \in RoomLists(n)
    /\ config = DETECTION_CONFIG
    /\ gray = None /\ prep_analysis = None /\ mask = None /\ analysis = None
    /\ contours = <<>> /\ candidate_rooms = <<>> /\ valid_rooms = <<>>
    /\ rooms_in = <<>>
    /\ edge_widths = <<>> /\ filled_ratios = <<>> /\ thicknesses = <<>>
    /\ avg_thickness = -1 /\ scored = <<>>
    /\ DoorIdle /\ NormIdle /\ LateIdle

NextDedup == Step6Duplicates \/ Step7SortLimit

SpecDedup == InitDedup /\ [][NextDedup]_vars

-----------------------------------------------------------------------------
(* The style analysis on its own: analyze_blueprint_characteristics on any *)
(* measurements.                                                           *)

StyleGrid ==
    { Measurement(t, d, c, n) :
        t \in {45, 50, 75, 80, 85, 100, 105},
        d \in {200, 300, 499, 500, 501, 800, 900},
        c \in {50, 150},
        n \in {10, 30, 31, 100} }

InitStyle ==
    /\ pc = "analyze"
    /\ gray \in StyleGrid
    /\ prep_analysis = None /\ mask = None /\ analysis = None
    /\ config = None /\ contours = <<>> /\ candidate_rooms = <<>>
    /\ valid_rooms = <<>> /\ rooms = <<>> /\ rooms_in = <<>>
    /\ edge_widths = <<>> /\ filled_ratios = <<>> /\ thicknesses = <<>>
    /\ avg_thickness = -1 /\ scored = <<>>
    /\ DoorIdle /\ NormIdle /\ LateIdle

\* blueprint_analyzer.py lines 53-74.
Analyze ==
    /\ pc = "analyze"
    /\ prep_analysis' = analyze_blueprint_characteristics(gray)
    /\ pc' = "analyzed"
    /\ UNCHANGED <<gray, mask, analysis, config, contours, candidate_rooms,
                   valid_rooms, rooms, rooms_in, thickVars, scored, doorVars, normVars, lateVars>>

NextStyle == Analyze

SpecStyle == InitStyle /\ [][NextStyle]_vars

-----------------------------------------------------------------------------
(* estimate_wall_thickness                                                 *)

\* range(1, 15): the last dilation iteration.
LastIteration == 14

\* min(w, h) of the bounding boxes of the edge contours: none (no edges), or
\* a few.
WidthLists == { <<>>, <<2>>, <<2, 5>>, <<9, 2, 4>> }

\* The filled-pixel ratios a dilation can show, in thousandths.
FilledLevels == {30, 50, 100, 150, 300}

\* Only the first in-band iteration counts.
BandThickness_First(ts) == 10 * ts[1]

\* Line 107: np.mean(thicknesses), in tenths of a pixel.  The dilations of an
\* edge map grow, so the in-band iterations are consecutive and the mean is
\* a multiple of 1.5.
BandThickness(ts) == (10 * SumSeq(ts)) \div Len(ts)

\* Line 114: np.median(widths), in tenths of a pixel.
MedianWidth(widths) == 5 * Median2(widths)

InitThickness ==
    /\ pc = "canny"
    /\ gray = None /\ prep_analysis = None /\ mask = None /\ analysis = None
    /\ config = None /\ contours = <<>> /\ candidate_rooms = <<>>
    /\ valid_rooms = <<>> /\ rooms = <<>> /\ rooms_in = <<>>
    /\ edge_widths = <<>> /\ filled_ratios = <<>> /\ thicknesses = <<>>
    /\ avg_thickness = -1 /\ scored = <<>>
    /\ DoorIdle /\ NormIdle /\ LateIdle

\* Lines 84-91: the edge contours; without any, 5.0 is returned.
ThicknessEdges ==
    /\ pc = "canny"
    /\ \E ws \in WidthLists :
          /\ edge_widths' = ws
          /\ IF ws = <<>>
                THEN avg_thickness' = 50 /\ pc' = "estimated"
                ELSE avg_thickness' = avg_thickness /\ pc' = "dilate"
    /\ UNCHANGED <<pipeVars, filled_ratios, thicknesses, scored, doorVars, normVars, lateVars>>

\* Lines 98-104: iteration i of the loop.  A dilation never clears a pixel,
\* so the ratio does not fall from one iteration to the next.
ThicknessDilate ==
    /\ pc = "dilate"
    /\ Len(filled_ratios) < LastIteration
    /\ \E filled_ratio \in FilledLevels :
          LET i == Len(filled_ratios) + 1
          IN  /\ filled_ratios # <<>> => filled_ratio >= filled_ratios[i - 1]
              /\ filled_ratios' = Append(filled_ratios, filled_ratio)
              /\ thicknesses' = IF 50 < filled_ratio /\ filled_ratio < 150
                                 THEN Append(thicknesses, i * 3)
                                 ELSE thicknesses
    /\ UNCHANGED <<pc, pipeVars, edge_widths, avg_thickness, scored, doorVars, normVars, lateVars>>

\* Lines 106-116.
ThicknessResult ==
    /\ pc = "dilate"
    /\ Len(filled_ratios) = LastIteration
    /\ avg_thickness' = IF thicknesses # <<>> THEN BandThickness(thicknesses)
                         ELSE MedianWidth(edge_widths)
    /\ pc' = "estimated"
    /\ UNCHANGED <<pipeVars, edge_widths, filled_ratios, thicknesses, scored, doorVars, normVars, lateVars>>

NextThickness == ThicknessEdges \/ ThicknessDilate \/ ThicknessResult

SpecThickness == InitThickness /\ [][NextThickness]_vars

-----------------------------------------------------------------------------
(* calculate_room_confidence_score on its own                              *)

\* The most calls of the scorer in a modelled run.
MaxScored == 2

Shape(w, h, area2, hull2) ==
    [x |-> 0, y |-> 0, w |-> w, h |-> h, area2 |-> area2, hull2 |-> hull2,
     parent |-> -1]

\* Contours with aspect ratios 1, 3, 3.1, 5, 8, 8.1 and 10, full and hollow,
\* inside and outside the size band of line 64.
ScoreShapes ==
    { Shape(100, 100, 18000, 18000),
      Shape(60, 60, 3600, 6000),
      Shape(300, 100, 48000, 48000),
      Shape(310, 100, 49600, 49600),
      Shape(100, 500, 20000, 80000),
      Shape(800, 100, 128000, 160000),
      Shape(810, 100, 129600, 129600),
      Shape(100, 1000, 150000, 200000),
      Shape(1000, 1000, 1600000, 1600000) }

ScoreStyles == StyleTags \cup {"hand_drawn"}

InitScore ==
    /\ pc = "score"
    /\ gray = None /\ prep_analysis = None /\ mask = None /\ analysis = None
    /\ config = None /\ contours = <<>> /\ candidate_rooms = <<>>
    /\ valid_rooms = <<>> /\ rooms = <<>> /\ rooms_in = <<>>
    /\ edge_widths = <<>> /\ filled_ratios = <<>> /\ thicknesses = <<>>
    /\ avg_thickness = -1 /\ scored = <<>>
    /\ DoorIdle /\ NormIdle /\ LateIdle

\* One call of calculate_room_confidence_score (lines 24-112).
ScoreCandidate ==
    /\ pc = "score"
    /\ Len(scored) < MaxScored
    /\ \E c \in ScoreShapes, s \in ScoreStyles :
          scored' = Append(scored,
                           [contour |-> c, style |-> s,
                            metrics |-> calculate_room_confidence_score(c, s)])
    /\ UNCHANGED <<pc, pipeVars, thickVars, doorVars, normVars, lateVars>>

NextScore == ScoreCandidate

SpecScore == InitScore /\ [][NextScore]_vars

-----------------------------------------------------------------------------
(* get_adaptive_parameters on any style tag and any measurements.          *)

InitParams ==
    /\ pc = "params"
    /\ gray \in StyleGrid
    /\ prep_analysis = None /\ mask = None /\ analysis = None
    /\ config = None /\ contours = <<>> /\ candidate_rooms = <<>>
    /\ valid_rooms = <<>> /\ rooms = <<>> /\ rooms_in = <<>>
    /\ edge_widths = <<>> /\ filled_ratios = <<>> /\ thicknesses = <<>>
    /\ avg_thickness = -1 /\ scored = <<>>
    /\ DoorIdle /\ NormIdle /\ LateIdle

\* One call of get_adaptive_parameters (lines 193-268); analysis keeps the
\* arguments of the call and config its result.
Recommend ==
    /\ pc = "params"
    /\ \E style \in ScoreStyles :
          /\ analysis' = [style |-> style,
                          wall_thickness |-> gray.wall_thickness,
                          line_density |-> gray.line_density,
                          contrast_level |-> gray.contrast_level]
          /\ config' = get_adaptive_parameters(style, gray.wall_thickness,
                                               gray.line_density,
                                               gray.contrast_level)
    /\ pc' = "recommended"
    /\ UNCHANGED <<gray, prep_analysis, mask, contours, candidate_rooms,
                   valid_rooms, rooms, rooms_in, thickVars, scored, doorVars, normVars, lateVars>>

NextParams == Recommend

SpecParams == InitParams /\ [][NextParams]_vars

-----------------------------------------------------------------------------
(* The sort and the truncation (step 7) on lists around max_rooms rooms.   *)

\* The longest list of rooms that reaches step 7 in a modelled run.
MaxListed == 52

\* The area of the i-th room of a list: growing, shrinking, with ties, mixed.
ListedArea(pattern, i) ==
    CASE pattern = "growing" -> 5000 + 100 * i
      [] pattern = "shrinking" -> 20000 - 100 * i
      [] pattern = "ties" -> 5000 + 1000 * (i % 3)
      [] pattern = "mixed" -> 5000 + 100 * ((7 * i) % 11)

\* n rooms in disjoint 200x200 boxes on a grid, as remove_duplicates leaves
\* them.
ListedRooms(pattern, n) ==
    [i \in 1..n |->
        [id |-> i - 1,
         bounding_box |-> <<210 * (i % 10), 210 * (i \div 10),
                            210 * (i % 10) + 200, 210 * (i \div 10) + 200>>,
         confidence_score |-> 80,
         type_hint |-> "room",
         area_pixels |-> ListedArea(pattern, i)]]

InitLimit ==
    /\ pc = "step7"
    /\ \E pattern \in {"growing", "shrinking", "ties", "mixed"}, n \in 0..MaxListed :
          rooms = ListedRooms(pattern, n)
    /\ config = DETECTION_CONFIG
    /\ gray = None /\ prep_analysis = None /\ mask = None /\ analysis = None
    /\ contours = <<>> /\ candidate_rooms = <<>> /\ valid_rooms = <<>>
    /\ rooms_in = <<>>
    /\ edge_widths = <<>> /\ filled_ratios = <<>> /\ thicknesses = <<>>
    /\ avg_thickness = -1 /\ scored = <<>>
    /\ DoorIdle /\ NormIdle /\ LateIdle

NextLimit == Step7SortLimit

SpecLimit == InitLimit /\ [][NextLimit]_vars

-----------------------------------------------------------------------------
(* doorway_detector.py: door arcs                                          *)
(*                                                                         *)
(* Angles are in sevenths of a degree: np.linspace(0, 2 * np.pi, 36) gives *)
(* the 36 angles k * 360 / 35 degrees, k = 0..35, that is 72 * k sevenths; *)
(* the last one is the full turn, the same point as the first.             *)

\* len(angles), line 154.
SampleCount == 36

SampleAngle(k) == 72 * (k - 1)
FullTurn == SampleAngle(SampleCount)

\* An arc of the perimeter from start over span; span -1 is the empty arc.
Arc(start, span) == [start |-> start, span |-> span]
NoArc == Arc(0, -1)
InArc(angle, arc) == ((angle - arc.start) % FullTurn) <= arc.span

\* A doorway as the detectors build it; the keys a doorway lacks are held
\* at -1, and has_connects_rooms tells whether the key connects_rooms is set.
Doorway(center, type, confidence, radius, width, length, bounding_box) ==
    [center |-> center, type |-> type, confidence |-> confidence,
     radius |-> radius, width |-> width, length |-> length,
     bounding_box |-> bounding_box,
     has_connects_rooms |-> FALSE, connects_rooms |-> <<>>, id |-> -1]

\* Lines 130-136; confidence in hundredths.
ArcDoorway(x, y, r) ==
    Doorway(<<x, y>>, "arc", 80, r, -1, -1, <<x - r, y - r, x + r, y + r>>)

\* edge_image[y, x] at the k-th sampled point of circle c, for an image img
\* whose set pixels on the perimeter of c are those of the arc img; the
\* sampled points of c.out are outside the image.
SampledPixel(img, c, k) ==
    IF InArc(SampleAngle(k), c.out) THEN "outside"
    ELSE IF InArc(SampleAngle(k), img) THEN "set"
    ELSE "clear"

\* The arc range taken as (0.25, 0.45).
verify_partial_arc_Quarter(img, c) ==
    LET edge_points == Cardinality({k \in 1..SampleCount :
                                       SampledPixel(img, c, k) = "set"})
    IN  /\ 25 * SampleCount < 100 * edge_points
        /\ 100 * edge_points < 45 * SampleCount

\* _verify_partial_arc (lines 140-171): 0.20 < edge_points / 36 < 0.45.
verify_partial_arc(img, c) ==
    LET edge_points == Cardinality({k \in 1..SampleCount :
                                       SampledPixel(img, c, k) = "set"})
    IN  /\ 20 * SampleCount < 100 * edge_points
        /\ 100 * edge_points < 45 * SampleCount

\* Circles of HoughCircles in a 640x480 image, radius within
\* [min_arc_radius, max_arc_radius]: two inside the image and one across its
\* left edge, whose 13th to 24th sampled points (x = int(10 + 25 * cos) < 0)
\* are outside.
Circles ==
    { [x |-> 100, y |-> 100, r |-> 25, out |-> NoArc],
      [x |-> 300, y |-> 200, r |-> 50, out |-> NoArc],
      [x |-> 10, y |-> 100, r |-> 25, out |-> Arc(864, 792)] }

\* The arcs drawn around a circle: none, 51, 90, 92.6, 100 and 180 degrees
\* and the full circle, from every fifth seventh of a degree.
DrawnSpans == {-1, 360, 630, 648, 700, 1260, FullTurn}
DrawnArcs ==
    { Arc(5 * s, span) : s \in 0..((FullTurn \div 5) - 1), span \in DrawnSpans }

InitArc ==
    /\ pc = "arc"
    /\ circle \in Circles
    /\ edge_image \in DrawnArcs
    /\ is_partial = None /\ doorways = <<>> /\ doorways_in = <<>>
    /\ door_rooms = None /\ door_config = None
    /\ RoomIdle /\ NormIdle /\ LateIdle

\* One circle of the loop of _detect_door_arcs (lines 124-136).
VerifyArc ==
    /\ pc = "arc"
    /\ is_partial' = verify_partial_arc(edge_image, circle)
    /\ doorways' = IF is_partial'
                       THEN Append(doorways, ArcDoorway(circle.x, circle.y, circle.r))
                   ELSE doorways
    /\ pc' = "arc_done"
    /\ UNCHANGED <<pipeVars, thickVars, scored, edge_image, circle, doorways_in,
                   door_rooms, door_config, normVars, lateVars>>

NextArc == VerifyArc

SpecArc == InitArc /\ [][NextArc]_vars

-----------------------------------------------------------------------------
(* doorway_detector.py: detect_doorways                                    *)

\* Lines 225-232; (x, y, w, h) is cv2.boundingRect of the gap.
GapDoorway(cx, cy, x, y, w, h) ==
    Doorway(<<cx, cy>>, "gap", 50, -1, Min(w, h), Max(w, h), <<x, y, x + w, y + h>>)

\* The square of the distance between the centers of two doorways.
Dist2(door, existing) ==
    (door.center[1] - existing.center[1]) * (door.center[1] - existing.center[1])
    + (door.center[2] - existing.center[2]) * (door.center[2] - existing.center[2])

\* Lines 249-268 from the i-th door of the sorted list on; np.sqrt(d2) < 20 is
\* d2 < 400.  (Len(next) never exceeds Len(sorted): the test has next
\* evaluated before the next iteration is entered.)
RECURSIVE UniqueSweep(_, _, _)
UniqueSweep(sorted, i, unique_doorways) ==
    IF i > Len(sorted) THEN unique_doorways
    ELSE LET door == sorted[i]
             is_duplicate == \E j \in DOMAIN unique_doorways :
                                 Dist2(door, unique_doorways[j]) < 400
             next == IF is_duplicate THEN unique_doorways
                     ELSE Append(unique_doorways, door)
         IN  IF Len(next) > Len(sorted) THEN next
             ELSE UniqueSweep(sorted, i + 1, next)

\* The sweep from the lowest confidence up.
remove_duplicate_doorways_LowestFirst(ds) ==
    LET sorted == SortDesc(ds, "confidence")
        reversed == [i \in DOMAIN sorted |-> sorted[Len(sorted) + 1 - i]]
    IN  IF Len(ds) <= 1 THEN ds ELSE UniqueSweep(reversed, 1, <<>>)

\* _remove_duplicate_doorways (lines 236-268).
remove_duplicate_doorways(ds) ==
    IF Len(ds) <= 1 THEN ds
    ELSE UniqueSweep(SortDesc(ds, "confidence"), 1, <<>>)

\* Lines 285-303: the ids of the rooms a doorway is adjacent to.
AdjacentRooms(door, rs) ==
    LET cx == door.center[1]
        cy == door.center[2]
        margin == 10
        Near(room) ==
            LET x1 == room.bounding_box[1]
                y1 == room.bounding_box[2]
                x2 == room.bounding_box[3]
                y2 == room.bounding_box[4]
            IN  /\ x1 - margin <= cx /\ cx <= x2 + margin
                /\ y1 - margin <= cy /\ cy <= y2 + margin
                /\ \/ Abs(cx - x1) < margin \/ Abs(cx - x2) < margin
                   \/ Abs(cy - y1) < margin \/ Abs(cy - y2) < margin
        near == SelectSeq(rs, Near)
    IN  [i \in DOMAIN near |-> near[i].id]

\* _map_doorways_to_rooms (lines 270-313); confidence *= 0.5 of 0.8 and 0.5.
map_doorways_to_rooms(ds, rs) ==
    [i \in DOMAIN ds |->
        LET adjacent_rooms == AdjacentRooms(ds[i], rs)
        IN  IF Len(adjacent_rooms) > 0
                THEN [ds[i] EXCEPT !.has_connects_rooms = TRUE,
                                   !.connects_rooms = adjacent_rooms]
            ELSE [ds[i] EXCEPT !.has_connects_rooms = TRUE,
                               !.connects_rooms = <<>>,
                               !.confidence = ds[i].confidence \div 2]]

\* "if rooms": the argument is given and is not the empty list.
Truthy(rs) == rs.given /\ rs.list # <<>>

\* Lines 70-78.
MapAndFilter(ds, rs, cfg) ==
    IF Truthy(rs)
        THEN LET mapped == map_doorways_to_rooms(ds, rs.list)
                 Connected(d) == d.connects_rooms # <<>>
             IN  IF cfg.require_room_proximity THEN SelectSeq(mapped, Connected)
                 ELSE mapped
    ELSE ds

\* The cap without the sort.
CapAndNumber_Unsorted(ds, rs, cfg) ==
    LET max_doorways == IF Truthy(rs) THEN Len(rs.list) * cfg.max_doorways_per_room
                        ELSE 50
        capped == IF Len(ds) > max_doorways THEN SubSeq(ds, 1, max_doorways)
                  ELSE ds
    IN  [idx \in DOMAIN capped |-> [capped[idx] EXCEPT !.id = idx - 1]]

\* Lines 80-89; the id door_007 is held as 7.
CapAndNumber(ds, rs, cfg) ==
    LET max_doorways == IF Truthy(rs) THEN Len(rs.list) * cfg.max_doorways_per_room
                        ELSE 50
        capped == IF Len(ds) > max_doorways
                      THEN SubSeq(SortDesc(ds, "confidence"), 1, max_doorways)
                  ELSE ds
    IN  [idx \in DOMAIN capped |-> [capped[idx] EXCEPT !.id = idx - 1]]

\* The most doorways the two detectors find in a modelled call.
MaxDetected == 52

\* The rooms of a call: ids 0 and 1, sharing the wall x = 300; or three
\* rooms whose walls meet in a T at (300, 205).
DoorRoom(id, x1, y1, x2, y2) ==
    [id |-> id, bounding_box |-> <<x1, y1, x2, y2>>]
DoorRoomLists ==
    { [given |-> FALSE, list |-> <<>>],
      [given |-> TRUE, list |-> <<>>],
      [given |-> TRUE, list |-> <<DoorRoom(0, 100, 100, 300, 300)>>],
      [given |-> TRUE, list |-> <<DoorRoom(0, 100, 100, 300, 300),
                                  DoorRoom(1, 300, 100, 500, 300)>>],
      [given |-> TRUE, list |-> <<DoorRoom(0, 100, 100, 300, 205),
                                  DoorRoom(1, 300, 100, 500, 300),
                                  DoorRoom(2, 100, 205, 300, 400)>>] }

\* self.config: the defaults of lines 26-35, or a caller's dictionary.
DoorConfigs ==
    { [require_room_proximity |-> p, max_doorways_per_room |-> m] :
        p \in BOOLEAN, m \in {1, 6} }

\* What the two detectors can find: an arc on the shared wall (1) and one far
\* from every room (2); a gap 11 px from arc 1 (3), a gap exactly 20 px from
\* arc 1 and 11 px from gap 3 (4), a gap on the left wall of room 0 (5) and a
\* gap deep inside room 0 (6).
DoorCatalogue ==
    << ArcDoorway(300, 200, 25),
       ArcDoorway(600, 400, 30),
       GapDoorway(310, 205, 298, 175, 25, 60),
       GapDoorway(320, 200, 308, 170, 25, 60),
       GapDoorway(100, 200, 88, 170, 25, 60),
       GapDoorway(200, 200, 170, 188, 60, 25) >>

\* n detections 40 px apart, far from every room: arcs, then gaps.
GridDoorways(n) ==
    LET arcs == (n + 1) \div 2
    IN  [i \in 1..n |->
            IF i <= arcs
                THEN ArcDoorway(1000 + 40 * (i % 10), 1000 + 40 * (i \div 10), 25)
            ELSE GapDoorway(1000 + 40 * (i % 10), 1000 + 40 * (i \div 10),
                            988 + 40 * (i % 10), 970 + 40 * (i \div 10), 25, 60)]

\* arc_doorways followed by gap_doorways (lines 56-64).
Detections ==
    { [i \in DOMAIN AscSeq(S) |-> DoorCatalogue[AscSeq(S)[i]]] :
        S \in SUBSET DOMAIN DoorCatalogue }
    \cup { GridDoorways(n) : n \in (MaxDetected - 3)..MaxDetected }

InitDoor ==
    /\ pc = "door_detect"
    /\ door_rooms \in DoorRoomLists
    /\ door_config \in DoorConfigs
    /\ edge_image = <<>> /\ circle = None /\ is_partial = None
    /\ doorways = <<>> /\ doorways_in = <<>>
    /\ RoomIdle /\ NormIdle /\ LateIdle

\* Lines 54-64.
DoorDetect ==
    /\ pc = "door_detect"
    /\ doorways' \in Detections
    /\ pc' = "door_dedup"
    /\ UNCHANGED <<pipeVars, thickVars, scored, edge_image, circle, is_partial,
                   doorways_in, door_rooms, door_config, normVars, lateVars>>

\* Lines 66-68.
DoorDeduplicate ==
    /\ pc = "door_dedup"
    /\ doorways_in' = doorways
    /\ doorways' = remove_duplicate_doorways(doorways)
    /\ pc' = "door_map"
    /\ UNCHANGED <<pipeVars, thickVars, scored, edge_image, circle, is_partial,
                   door_rooms, door_config, normVars, lateVars>>

\* Lines 70-78.
DoorMap ==
    /\ pc = "door_map"
    /\ doorways_in' = doorways
    /\ doorways' = MapAndFilter(doorways, door_rooms, door_config)
    /\ pc' = "door_cap"
    /\ UNCHANGED <<pipeVars, thickVars, scored, edge_image, circle, is_partial,
                   door_rooms, door_config, normVars, lateVars>>

\* Lines 80-92.
DoorCap ==
    /\ pc = "door_cap"
    /\ doorways_in' = doorways
    /\ doorways' = CapAndNumber(doorways, door_rooms, door_config)
    /\ pc' = "door_done"
    /\ UNCHANGED <<pipeVars, thickVars, scored, edge_image, circle, is_partial,
                   door_rooms, door_config, normVars, lateVars>>

NextDoor == DoorDetect \/ DoorDeduplicate \/ DoorMap \/ DoorCap

SpecDoor == InitDoor /\ [][NextDoor]_vars

-----------------------------------------------------------------------------
(* normalizer.py                                                           *)
(*                                                                         *)
(* Normalized coordinates are held in units of 0.0001 (0.0234 -> 234) and  *)
(* area_normalized in units of 0.000001.                                   *)

RECURSIVE PowerOfTwo(_)
PowerOfTwo(k) == k = 1 \/ (k > 1 /\ k % 2 = 0 /\ PowerOfTwo(k \div 2))

\* The float n / d is the exact quotient: the reduced denominator is a power
\* of two.
ExactQuotient(n, d) == n = 0 \/ PowerOfTwo(d \div GCD(n, d))

\* The values round(m / unit) can take for a float m / unit >= 0 that is to be
\* rounded to a whole number of units: the nearest one; when m / unit lies
\* half-way, the even one if the float is exact, else either neighbour (the
\* float is a little above or a little below the half-way point).
RoundHalf(m, unit, exact) ==
    LET q == m \div unit
        r2 == 2 * (m % unit)
    IN  IF r2 < unit THEN {q}
        ELSE IF r2 > unit THEN {q + 1}
        ELSE IF exact THEN {IF q % 2 = 0 THEN q ELSE q + 1}
        ELSE {q, q + 1}

\* Rounding to three decimals instead of four.
Round4_ThreeDecimals(n, d) ==
    { (IF n < 0 THEN -1 ELSE 1) * 10 * v :
        v \in RoundHalf(1000 * Abs(n), d, ExactQuotient(Abs(n), d)) }

\* round(float(n) / d, 4), lines 39-42, 67-68 and 76.
Round4(n, d) ==
    { (IF n < 0 THEN -1 ELSE 1) * v :
        v \in RoundHalf(10000 * Abs(n), d, ExactQuotient(Abs(n), d)) }

\* int(norm * target) for norm = k / 10000 (lines 123-126): the product is
\* truncated towards zero; when k * target / 10000 is a whole number q and
\* the float norm is not exact, the float product is q or just short of it.
TruncProduct(k, target, exact) ==
    LET q == (Abs(k) * target) \div 10000
        s == IF k < 0 THEN -1 ELSE 1
    IN  IF (Abs(k) * target) % 10000 # 0 \/ exact \/ q = 0 THEN {s * q}
        ELSE {s * (q - 1), s * q}

\* What normalize_coordinates makes of one item (lines 32-76): the item with
\* its normalized fields, for every way the ties fall.  The keys an item
\* lacks are held at -1; a room's polygon is the outline of its bounding box.
NormalizedItems(item, height, width) ==
    LET bb == item.bounding_box
        gap_with_area == item.has_area_pixels /\ item.type = "gap"
        boxes == Round4(bb[1], width) \X Round4(bb[2], height)
                     \X Round4(bb[3], width) \X Round4(bb[4], height)
    IN  UNION {
          { [item |-> item,
             bounding_box_normalized |-> b,
             bounding_box_pixels |-> bb,
             polygon_normalized |->
                 IF item.has_polygon
                 THEN <<<<b[1], b[2]>>, <<b[3], b[2]>>, <<b[3], b[4]>>, <<b[1], b[4]>>>>
                 ELSE <<>>,
             area_normalized |-> IF gap_with_area THEN -1 ELSE a,
             center_normalized |->
                 IF item.has_center THEN <<cx, cy>> ELSE <<-1, -1>>,
             radius_normalized |-> IF item.has_radius THEN rn ELSE -1]
            : a \in RoundHalf((b[3] - b[1]) * (b[4] - b[2]), 100, FALSE),
              cx \in Round4(item.center[1], width),
              cy \in Round4(item.center[2], height),
              rn \in Round4(item.radius, width) }
          : b \in boxes }

\* denormalize_coordinates (lines 103-133): every result the float products
\* allow.
denormalize_coordinates(normalized_box, target_width, target_height) ==
    LET Exact(k) == ExactQuotient(Abs(k), 10000)
        x0 == normalized_box[1]
        y0 == normalized_box[2]
        x1 == normalized_box[3]
        y1 == normalized_box[4]
    IN  { [x |-> x, y |-> y, width |-> w, height |-> h]
          : x \in TruncProduct(x0, target_width, Exact(x0)),
            y \in TruncProduct(y0, target_height, Exact(y0)),
            w \in TruncProduct(x1 - x0, target_width, Exact(x0) /\ Exact(x1)),
            h \in TruncProduct(y1 - y0, target_height, Exact(y0) /\ Exact(y1)) }

\* The items handed to normalize_coordinates: a room of the detector
\* (opencv_detector_adaptive.py, lines 207-214) and a doorway of the doorway
\* detector, with the keys the normalizer reads.
RoomItem(x, y, w, h) ==
    [bounding_box |-> <<x, y, x + w, y + h>>, type |-> None,
     has_area_pixels |-> TRUE, has_polygon |-> TRUE,
     has_center |-> FALSE, center |-> <<-1, -1>>,
     has_radius |-> FALSE, radius |-> -1]
DoorwayItem(d) ==
    [bounding_box |-> d.bounding_box, type |-> d.type,
     has_area_pixels |-> FALSE, has_polygon |-> FALSE,
     has_center |-> TRUE, center |-> d.center,
     has_radius |-> d.type = "arc", radius |-> d.radius]

\* Image shapes <<height, width>>.
Shapes ==
    { <<32, 32>>, <<480, 640>>, <<800, 800>>, <<2000, 1500>>,
      <<10000, 8000>>, <<12000, 27000>> }

\* Boxes inside an image of the given shape: near the origin, and up to the
\* far edges.
BoxesIn(height, width) ==
    { <<x, y, w, h>> \in {0, 1, 3, 4, width - 30} \X {0, 2, 5, height - 20}
                          \X {1, 9, 30} \X {1, 20} :
        x + w <= width /\ y + h <= height }

\* Circles HoughCircles can report: center inside the image, radius within
\* minRadius..maxRadius (doorway_detector.py, lines 110-119).
ArcsIn(height, width) ==
    { ArcDoorway(c[1], c[2], r) :
        c \in { c \in { <<10, 100>>, <<100, 100>>, <<width - 10, height - 10>> } :
                  c[1] < width /\ c[2] < height },
        r \in {25, 50} }

ItemsIn(height, width) ==
    { RoomItem(b[1], b[2], b[3], b[4]) : b \in BoxesIn(height, width) }
    \cup { DoorwayItem(d) : d \in ArcsIn(height, width) }
    \cup { DoorwayItem(GapDoorway(b[1] + b[3] \div 2, b[2] + b[4] \div 2,
                                  b[1], b[2], b[3], b[4])) :
             b \in { b \in BoxesIn(height, width) : b[3] = 30 /\ b[4] = 20 } }

InitNorm ==
    /\ pc = "normalize"
    /\ original_shape \in Shapes
    /\ \E item \in ItemsIn(original_shape[1], original_shape[2]) :
           items \in {<<>>, <<item>>}
    /\ pixel_box = None
    /\ RoomIdle /\ DoorIdle /\ LateIdle

\* normalize_coordinates(items, original_shape), lines 12-80.
Normalize ==
    /\ pc = "normalize"
    /\ items' \in
           { s \in [DOMAIN items ->
                     UNION { NormalizedItems(items[i], original_shape[1],
                                             original_shape[2]) : i \in DOMAIN items }] :
               \A i \in DOMAIN items :
                   s[i] \in NormalizedItems(items[i], original_shape[1],
                                            original_shape[2]) }
    /\ pc' = "normalized"
    /\ UNCHANGED <<pipeVars, thickVars, scored, doorVars, original_shape, pixel_box,
                   lateVars>>

\* Canvas sizes <<height, width>> a box is denormalized for: the image's own
\* and another one.
Canvases == {original_shape, <<600, 800>>}

\* denormalize_coordinates(bounding_box_normalized, target_width,
\* target_height) of every normalized item, lines 103-133.
Denormalize ==
    /\ pc = "normalized"
    /\ \E target \in Canvases :
           pixel_box' \in
             { [target_height |-> target[1], target_width |-> target[2], boxes |-> s] :
                 s \in { s \in [DOMAIN items ->
                                  UNION { denormalize_coordinates(
                                              items[i].bounding_box_normalized,
                                              target[2], target[1]) : i \in DOMAIN items }] :
                           \A i \in DOMAIN items :
                               s[i] \in denormalize_coordinates(
                                           items[i].bounding_box_normalized,
                                           target[2], target[1]) } }
    /\ pc' = "denormalized"
    /\ UNCHANGED <<pipeVars, thickVars, scored, doorVars, items, original_shape,
                   lateVars>>

NextNorm == Normalize \/ Denormalize

SpecNorm == InitNorm /\ [][NextNorm]_vars

-----------------------------------------------------------------------------
(* config.py and the configuration of a run                                *)
(*                                                                         *)
(* Ratios and the CLAHE clip limit are in hundredths.                      *)

\* config.py, lines 11-37.
PREPROCESSING ==
    [max_dimension |-> 2000, denoise_strength |-> 10, contrast_clip_limit |-> 200,
     morph_close_size |-> 3, morph_close_iterations |-> 1,
     morph_open_size |-> 5, morph_open_iterations |-> 1,
     morph_dilate_size |-> 2, morph_dilate_iterations |-> 1,
     min_file_size |-> 10000, max_file_size |-> 10485760]

\* config.py, lines 41-79.
DETECTION ==
    [min_room_area_pixels |-> 5000, max_room_area_pixels |-> 500000,
     min_room_dimension |-> 50,
     min_aspect_ratio |-> 20, max_aspect_ratio |-> 800, hallway_aspect_ratio |-> 400,
     min_area_ratio_to_parent |-> 5, max_area_ratio_to_parent |-> 85,
     min_solidity |-> 60, min_extent |-> 50, iou_threshold |-> 50, max_rooms |-> 50]

\* config.py, lines 84-115.
PRESETS ==
    [clean_cad |-> [morph_open_size |-> 3, min_room_area_pixels |-> 5000,
                    min_solidity |-> 60],
     detailed_cad |-> [morph_open_size |-> 7, min_room_area_pixels |-> 8000,
                       min_solidity |-> 70, min_area_ratio_to_parent |-> 10],
     scanned |-> [denoise_strength |-> 15, morph_open_size |-> 5,
                  min_room_area_pixels |-> 6000, min_solidity |-> 50],
     hand_drawn |-> [morph_open_size |-> 4, min_room_area_pixels |-> 4000,
                     min_solidity |-> 40, min_extent |-> 40]]

\* The module-level dictionaries as the interpreter holds them after import.
SharedDefaults ==
    [PREPROCESSING |-> PREPROCESSING, DETECTION |-> DETECTION,
     PRESETS |-> PRESETS, DETECTION_CONFIG |-> DETECTION_CONFIG]

\* dictionary d after  for key, value in src.items(): d[key] = value  is run
\* for the keys in taken.
Overridden(d, src, taken) ==
    [key \in DOMAIN d |->
        IF key \in DOMAIN src /\ key \in taken THEN src[key] ELSE d[key]]

\* A call's outcome: the exception raised or the value returned, and the
\* module-level dictionaries after the call.
Raise(error, sh) == [raised |-> error, returned |-> None, shared |-> sh]
Return(value, sh) == [raised |-> None, returned |-> value, shared |-> sh]

\* apply_preset working on the module-level dictionaries themselves (no
\* .copy()).
apply_preset_InPlace(preset_name, sh) ==
    IF preset_name \notin DOMAIN sh.PRESETS THEN Raise("ValueError", sh)
    ELSE LET preset == sh.PRESETS[preset_name]
             InPrep == DOMAIN sh.PREPROCESSING
             InDet == DOMAIN sh.DETECTION \ DOMAIN sh.PREPROCESSING
             prep_config == Overridden(sh.PREPROCESSING, preset, InPrep)
             det_config == Overridden(sh.DETECTION, preset, InDet)
         IN  Return(<<prep_config, det_config>>,
                    [sh EXCEPT !.PREPROCESSING = prep_config,
                               !.DETECTION = det_config])

\* apply_preset(preset_name), config.py lines 118-145.
apply_preset(preset_name, sh) ==
    IF preset_name \notin DOMAIN sh.PRESETS THEN Raise("ValueError", sh)
    ELSE LET preset == sh.PRESETS[preset_name]
             InPrep == DOMAIN sh.PREPROCESSING
             InDet == DOMAIN sh.DETECTION \ DOMAIN sh.PREPROCESSING
             prep_config == Overridden(sh.PREPROCESSING, preset, InPrep)
             det_config == Overridden(sh.DETECTION, preset, InDet)
         IN  Return(<<prep_config, det_config>>, sh)

\* The configuration of a run made on DETECTION_CONFIG itself (no .copy()).
RunConfig_InPlace(adaptive_params, sh) ==
    LET cfg == [sh.DETECTION_CONFIG EXCEPT
                    !.min_room_area_pixels = adaptive_params.min_room_area_pixels,
                    !.min_solidity = adaptive_params.min_solidity]
    IN  Return(cfg, [sh EXCEPT !.DETECTION_CONFIG = cfg])

\* detect_rooms_adaptive, lines 142-145: the configuration of a run.
RunConfig(adaptive_params, sh) ==
    Return([sh.DETECTION_CONFIG EXCEPT
                !.min_room_area_pixels = adaptive_params.min_room_area_pixels,
                !.min_solidity = adaptive_params.min_solidity],
           sh)

\* Names handed to apply_preset: the four presets, a misspelt one and one
\* that was never defined.
PresetNames == {"clean_cad", "detailed_cad", "scanned", "hand_drawn",
                "hand_drwn", "default"}

\* Arguments handed to get_adaptive_parameters: the styles the classifier and
\* the scoring know and one nobody knows; measurements inside their ranges
\* (wall_thickness > 0 in tenths of a pixel, line_density a fraction in
\* 1/10000, contrast_level a standard deviation of gray levels) and outside.
ParamStyles == ScoreStyles \cup {"blueprint"}
ParamThicknesses == {-10, 0, 45, 80, 105}
ParamDensities == {-1, 200, 500, 900, 25000}
ParamContrasts == {-5, 150}

InitConfig ==
    /\ pc = "config"
    /\ shared = SharedDefaults
    /\ call = [fn |-> None]
    /\ raised = None
    /\ returned = None
    /\ RoomIdle /\ DoorIdle /\ NormIdle /\ UniIdle /\ ConcIdle /\ ReqIdle
    /\ MatchIdle

\* What a call leaves behind.
Outcome(c, o) ==
    /\ call' = c
    /\ raised' = o.raised
    /\ returned' = o.returned
    /\ shared' = o.shared
    /\ UNCHANGED <<pc, pipeVars, thickVars, scored, doorVars, normVars, uniVars,
                   concVars, reqVars, matchVars>>

\* apply_preset(preset_name), config.py lines 118-145.
ApplyPreset ==
    /\ pc = "config"
    /\ \E preset_name \in PresetNames :
           Outcome([fn |-> "apply_preset", preset_name |-> preset_name],
                   apply_preset(preset_name, shared))

\* get_adaptive_parameters(style, wall_thickness, line_density, contrast),
\* blueprint_analyzer.py lines 193-268: it has no raise statement and touches
\* no module-level name.
BuildParams ==
    /\ pc = "config"
    /\ \E style \in ParamStyles, wall_thickness \in ParamThicknesses,
          line_density \in ParamDensities, contrast \in ParamContrasts :
           Outcome([fn |-> "get_adaptive_parameters", style |-> style,
                    wall_thickness |-> wall_thickness,
                    line_density |-> line_density, contrast |-> contrast],
                   Return(get_adaptive_parameters(style, wall_thickness,
                                                  line_density, contrast),
                          shared))

\* detect_rooms_adaptive up to line 145: the analysis of the mask and the
\* configuration of the run.
ConfigureRun ==
    /\ pc = "config"
    /\ \E m \in MaskMeasurements :
           Outcome([fn |-> "detect_rooms_adaptive", image |-> m],
                   RunConfig(analyze_blueprint_characteristics(m).recommended_params,
                             shared))

NextConfig == ApplyPreset \/ BuildParams \/ ConfigureRun

SpecConfig == InitConfig /\ [][NextConfig]_vars

-----------------------------------------------------------------------------
(* detect_rooms_adaptive on a raster of one intensity                      *)

\* A raster of the given shape whose pixels all have the given value.
Uniform(value, height, width) == [value |-> value, height |-> height, width |-> width]

\* The measurements of a uniform raster (blueprint_analyzer.py): cv2.Canny
\* finds no edge, so estimate_wall_thickness has no contour and returns 5.0
\* (lines 84-91) and the edge density is 0 (line 133); the standard deviation
\* and the Laplacian are 0 (lines 145, 156-160).
UniformMeasurement(img) == Measurement(50, 0, 0, 0)

\* cv2.findContours(image, cv2.RETR_TREE, cv2.CHAIN_APPROX_SIMPLE) of a
\* uniform raster (lines 149-153): nothing when every pixel is zero; when
\* every pixel is non-zero the one region is the raster itself, traced along
\* its outermost pixels (0, 0) .. (width - 1, height - 1), at top level.
FindContoursUniform(img) ==
    IF img.value = 0 THEN <<>>
    ELSE << [x |-> 0, y |-> 0, w |-> img.width, h |-> img.height,
             area2 |-> 2 * (img.width - 1) * (img.height - 1),
             hull2 |-> 2 * (img.width - 1) * (img.height - 1),
             parent |-> -1] >>

\* Uniform rasters: black, white and two grays, from one pixel up to the
\* largest the conditioner hands on (max_dimension 2000).
UniformRasters ==
    { Uniform(v, s[1], s[2]) :
        v \in {0, 1, 128, 255},
        s \in { <<1, 1>>, <<40, 40>>, <<100, 100>>, <<300, 300>>, <<480, 640>>,
                <<600, 800>>, <<1500, 2000>>, <<2000, 2000>> } }

InitUniform ==
    /\ pc = "uniform"
    /\ image \in UniformRasters
    /\ RoomIdle /\ DoorIdle /\ NormIdle /\ CfgIdle /\ ConcIdle /\ ReqIdle
    /\ MatchIdle

\* Lines 131-145 on a uniform raster.
UniformAnalyze ==
    /\ pc = "uniform"
    /\ mask' = UniformMeasurement(image)
    /\ analysis' = analyze_blueprint_characteristics(UniformMeasurement(image))
    /\ config' =
          [DETECTION_CONFIG EXCEPT
              !.min_room_area_pixels =
                  analyze_blueprint_characteristics(UniformMeasurement(image))
                      .recommended_params.min_room_area_pixels,
              !.min_solidity =
                  analyze_blueprint_characteristics(UniformMeasurement(image))
                      .recommended_params.min_solidity]
    /\ pc' = "uniform_step1"
    /\ UNCHANGED <<gray, prep_analysis, contours, candidate_rooms, valid_rooms,
                   rooms, rooms_in, thickVars, scored, doorVars, normVars, lateVars>>

\* Lines 147-159 on a uniform raster.
UniformFindContours ==
    /\ pc = "uniform_step1"
    /\ contours' = FindContoursUniform(image)
    /\ pc' = IF Len(FindContoursUniform(image)) = 0 THEN "done" ELSE "step2"
    /\ UNCHANGED <<gray, prep_analysis, mask, analysis, config, candidate_rooms,
                   valid_rooms, rooms, rooms_in, thickVars, scored, doorVars,
                   normVars, lateVars>>

NextUniform ==
    \/ UniformAnalyze \/ UniformFindContours
    \/ Step2Candidates \/ Step3Filter \/ Step4Rooms \/ Step5Scale
    \/ Step6Duplicates \/ Step7SortLimit

SpecUniform == InitUniform /\ [][NextUniform]_vars

-----------------------------------------------------------------------------
(* Concurrent invocations: local_api_server.py runs Flask with            *)
(* threaded=True, so requests to /detect interleave.                       *)

\* The number of invocations in flight.
NumInvocations == 2

\* extract_rooms_from_hierarchy reading the module-level DETECTION_CONFIG as
\* it is at the time of the call (opencv_detector_improved.py, lines 151-188).
HierarchyCandidates(cs, detection_config) ==
    AscSeq({idx \in 1..Len(cs) :
        /\ cs[idx].parent # -1
        /\ ~(cs[idx].area2 < 2 * detection_config.min_room_area_pixels)
        /\ ~(cs[idx].area2 > 2 * detection_config.max_room_area_pixels)
        /\ LET parent_area2 == cs[cs[idx].parent].area2
           IN  /\ parent_area2 > 0
               /\ detection_config.min_area_ratio_to_parent * parent_area2
                      < 100 * cs[idx].area2
               /\ 100 * cs[idx].area2
                      < detection_config.max_area_ratio_to_parent * parent_area2})

\* Steps 3 to 7 of detect_rooms_adaptive (lines 175-256): they work on local
\* variables only.
RoomsFrom(candidates, cs, cfg, style) ==
    LET valid == filter_by_room_characteristics_adaptive(candidates, cs, cfg, style)
        built == [k \in DOMAIN valid |-> RoomOf(k, valid, cs, cfg, style)]
    IN  SortAndLimit(remove_duplicates(ScaleFilter(built), cfg.iou_threshold), cfg)

\* DoorwayDetector().detect_doorways(binary_image, rooms) from the detections
\* of its two detectors on (lines 66-92), with the default configuration.
DoorwaysFrom(detections, rs) ==
    LET cfg == [require_room_proximity |-> TRUE, max_doorways_per_room |-> 6]
        arg == [given |-> TRUE, list |-> rs]
    IN  CapAndNumber(MapAndFilter(remove_duplicate_doorways(detections), arg, cfg),
                     arg, cfg)

\* A wall loop with three regions inside it: a room and two small rooms of
\* area 6000 and 5500, between the default minimum area (5000) and the one of
\* a detailed_cad run with thick walls (6400).
Floor ==
    << [x |-> 100, y |-> 100, w |-> 400, h |-> 300, area2 |-> 200000,
        hull2 |-> 200000, parent |-> -1],
       [x |-> 250, y |-> 110, w |-> 200, h |-> 150, area2 |-> 50000,
        hull2 |-> 50000, parent |-> 1],
       [x |-> 110, y |-> 110, w |-> 100, h |-> 60, area2 |-> 12000,
        hull2 |-> 12000, parent |-> 1],
       [x |-> 110, y |-> 300, w |-> 110, h |-> 50, area2 |-> 11000,
        hull2 |-> 11000, parent |-> 1] >>

\* The requests: the measurements of the mask, the contours cv2.findContours
\* traces in it and the doorways the two detectors find.
Request(m, cs, ds) == [mask |-> m, contours |-> cs, detections |-> ds]
Requests ==
    { Request(m, cs, ds) :
        m \in {Measurement(60, 300, 200, 40), Measurement(120, 900, 200, 40)},
        cs \in {Floor, SubSeq(Floor, 1, 2)},
        ds \in {<<ArcDoorway(450, 200, 25), GapDoorway(255, 185, 240, 170, 30, 20)>>} }

\* The result of an invocation running alone, with the module-level
\* dictionaries as they are after import.
Alone(request) ==
    LET a == analyze_blueprint_characteristics(request.mask)
        cfg == RunConfig(a.recommended_params, SharedDefaults).returned
        candidates == HybridCandidates(
                          HierarchyCandidates(request.contours,
                                              SharedDefaults.DETECTION_CONFIG),
                          request.contours, cfg)
        rs == RoomsFrom(candidates, request.contours, cfg, a.style)
    IN  [rooms |-> rs, doorways |-> DoorwaysFrom(request.detections, rs)]

\* The local variables of an invocation before it has started.
Fresh == [pc |-> "waiting"]

InitConcurrent ==
    /\ pc = "serving"
    /\ shared = SharedDefaults
    /\ call = None /\ raised = None /\ returned = None
    /\ inv = [i \in 1..NumInvocations |-> Fresh]
    /\ debug_viz \in { [enabled |-> e, final_detection |-> 0] : e \in BOOLEAN }
    /\ RoomIdle /\ DoorIdle /\ NormIdle /\ UniIdle /\ ReqIdle /\ MatchIdle

ConcFrame == UNCHANGED <<pc, pipeVars, thickVars, scored, doorVars, normVars,
                         call, raised, returned, uniVars, reqVars, matchVars>>

\* A request arrives and detect_rooms_adaptive makes its step 0 (lines
\* 129-145): the analysis, and the configuration from DETECTION_CONFIG.
ConcStep0(i) ==
    /\ inv[i].pc = "waiting"
    /\ \E request \in Requests :
          LET a == analyze_blueprint_characteristics(request.mask)
              o == RunConfig(a.recommended_params, shared)
          IN  /\ inv' = [inv EXCEPT ![i] =
                            [pc |-> "step1", request |-> request, analysis |-> a,
                             config |-> o.returned]]
              /\ shared' = o.shared
    /\ UNCHANGED debug_viz
    /\ ConcFrame

\* Steps 1 and 2 (lines 147-173): the hierarchy scan reads the module-level
\* DETECTION_CONFIG, the fallback the configuration of the run.
ConcStep2(i) ==
    /\ inv[i].pc = "step1"
    /\ inv' = [inv EXCEPT ![i] =
                  [pc |-> "step3", request |-> inv[i].request,
                   analysis |-> inv[i].analysis, config |-> inv[i].config,
                   candidate_rooms |->
                       HybridCandidates(
                           HierarchyCandidates(inv[i].request.contours,
                                               shared.DETECTION_CONFIG),
                           inv[i].request.contours, inv[i].config)]]
    /\ UNCHANGED <<shared, debug_viz>>
    /\ ConcFrame

\* Steps 3 to 7 and the debug image of the result (lines 175-256).
ConcStep7(i) ==
    /\ inv[i].pc = "step3"
    /\ inv' = [inv EXCEPT ![i] =
                  [pc |-> "rooms", request |-> inv[i].request,
                   rooms |-> RoomsFrom(inv[i].candidate_rooms,
                                       inv[i].request.contours, inv[i].config,
                                       inv[i].analysis.style)]]
    /\ debug_viz' = IF debug_viz.enabled
                     THEN [debug_viz EXCEPT !.final_detection = i]
                     ELSE debug_viz
    /\ UNCHANGED shared
    /\ ConcFrame

\* detect_doorways on the rooms of the invocation.
ConcDoorways(i) ==
    /\ inv[i].pc = "rooms"
    /\ inv' = [inv EXCEPT ![i] =
                  [pc |-> "done", request |-> inv[i].request, rooms |-> inv[i].rooms,
                   doorways |-> DoorwaysFrom(inv[i].request.detections, inv[i].rooms)]]
    /\ UNCHANGED <<shared, debug_viz>>
    /\ ConcFrame

NextConcurrent ==
    \E i \in 1..NumInvocations :
        ConcStep0(i) \/ ConcStep2(i) \/ ConcStep7(i) \/ ConcDoorways(i)

SpecConcurrent == InitConcurrent /\ [][NextConcurrent]_vars

-----------------------------------------------------------------------------
(* The request handlers: lambda_function.py and local_api_server.py        *)

\* utils/validation.py, lines 11-12.
MIN_FILE_SIZE == 10000
MAX_FILE_SIZE == 10485760

\* An exception is known by its class, and a class by the module that
\* defines it and its name: utils/validation.py (line 15) and
\* utils/error_handling.py (line 10) each define an ImageValidationError.
Exc(module, class) == [module |-> module, class |-> class]
NoException == Exc(None, None)

\* image_data: its length and its first bytes.
Upload(handler, size, signature) ==
    [handler |-> handler, size |-> size, signature |-> signature]

\* is_valid_image_format, utils/validation.py lines 57-83.
is_valid_image_format(image_data) ==
    IF image_data.size < 8 THEN FALSE
    ELSE image_data.signature \in {"PNG", "JPEG", "PDF"}

\* validate_image_data, utils/validation.py lines 20-54: the exception it
\* raises, of the class of its own module.
validate_image_data(image_data) ==
    IF image_data.size = 0 THEN Exc("utils.validation", "ImageValidationError")
    ELSE IF image_data.size < MIN_FILE_SIZE
        THEN Exc("utils.validation", "ImageValidationError")
    ELSE IF image_data.size > MAX_FILE_SIZE
        THEN Exc("utils.validation", "ImageValidationError")
    ELSE IF ~is_valid_image_format(image_data)
        THEN Exc("utils.validation", "ImageValidationError")
    ELSE NoException

\* extract_image_from_event, lambda_function.py lines 177-206: the exception
\* it raises, of the class lambda_function imports from utils.error_handling.
extract_image_from_event(image_data) ==
    IF image_data.size = 0 THEN Exc("utils.error_handling", "ImageValidationError")
    ELSE NoException

ErrorResponse(status_code, error_code) ==
    [statusCode |-> status_code, error_code |-> error_code]

\* The except clauses of lambda_handler, lambda_function.py lines 138-174;
\* the names are those imported in lines 32-36.
lambda_handler_except(e) ==
    IF e = Exc("utils.error_handling", "ImageValidationError")
        THEN ErrorResponse(422, "INVALID_IMAGE")
    ELSE IF e = Exc("utils.error_handling", "DetectionFailedError")
        THEN ErrorResponse(422, "NO_ROOMS_FOUND")
    ELSE IF e = Exc("builtins", "TimeoutError")
        THEN ErrorResponse(504, "TIMEOUT")
    ELSE ErrorResponse(500, "INTERNAL_ERROR")

\* The except clauses of detect, local_api_server.py lines 96-100 (around
\* validate_image_data only) and 160-211.
detect_except(e, validating) ==
    IF validating /\ e = Exc("utils.error_handling", "ImageValidationError")
        THEN ErrorResponse(422, "INVALID_IMAGE")
    ELSE IF e = Exc("utils.error_handling", "DetectionFailedError")
        THEN ErrorResponse(422, "NO_ROOMS_FOUND")
    ELSE ErrorResponse(500, "INTERNAL_ERROR")

\* Uploads: empty, one byte short of the minimum, the minimum, the maximum
\* and one byte more, with the three signatures and another one.
Uploads ==
    { Upload(handler, size, signature) :
        handler \in {"lambda_handler", "detect"},
        size \in {0, 4, MIN_FILE_SIZE - 1, MIN_FILE_SIZE, 500000, MAX_FILE_SIZE,
                  MAX_FILE_SIZE + 1},
        signature \in {"PNG", "JPEG", "PDF", "GIF"} }

\* What the pipeline does with a validated upload: rooms, no rooms
\* (DetectionFailedError, lines 75-76), or an image that cannot be decoded
\* (ValueError, preprocessing_adaptive.py line 223).
PipelineOutcomes ==
    { NoException, Exc("utils.error_handling", "DetectionFailedError"),
      Exc("builtins", "ValueError") }

InitRequest ==
    /\ pc = "received"
    /\ upload \in Uploads
    /\ exception = NoException
    /\ response = ErrorResponse(0, None)
    /\ RoomIdle /\ DoorIdle /\ NormIdle /\ CfgIdle /\ UniIdle /\ ConcIdle
    /\ MatchIdle

ReqFrame == UNCHANGED <<pipeVars, thickVars, scored, doorVars, normVars,
                        cfgVars, uniVars, concVars, matchVars>>

\* lambda_handler lines 61-65, detect lines 92-100: the image is taken from
\* the request and validated.
RequestValidate ==
    /\ pc = "received"
    /\ exception' =
          IF upload.handler = "lambda_handler"
                /\ extract_image_from_event(upload) # NoException
              THEN extract_image_from_event(upload)
          ELSE validate_image_data(upload)
    /\ pc' = "validated"
    /\ UNCHANGED <<upload, response>>
    /\ ReqFrame

\* lambda_handler lines 67-85, detect lines 102-121: the pipeline.
RequestPipeline ==
    /\ pc = "validated"
    /\ exception = NoException
    /\ exception' \in PipelineOutcomes
    /\ pc' = "processed"
    /\ UNCHANGED <<upload, response>>
    /\ ReqFrame

\* The answer: 200, or the one of the except clause that takes the exception.
RequestRespond ==
    /\ \/ pc = "validated" /\ exception # NoException
       \/ pc = "processed"
    /\ response' =
          IF exception = NoException THEN ErrorResponse(200, None)
          ELSE IF upload.handler = "lambda_handler"
              THEN lambda_handler_except(exception)
          ELSE detect_except(exception, pc = "validated")
    /\ pc' = IF pc = "validated" THEN "rejected" ELSE "answered"
    /\ UNCHANGED <<upload, exception>>
    /\ ReqFrame

NextRequest == RequestValidate \/ RequestPipeline \/ RequestRespond

SpecRequest == InitRequest /\ [][NextRequest]_vars

-----------------------------------------------------------------------------
(* opencv_detector_improved.py: extract_rooms_from_hierarchy on its own    *)

\* The most contours of a hierarchy given to extract_rooms_from_hierarchy.
MaxFamily == 3

\* Twice the areas cv2.contourArea returns for the contours of a hierarchy:
\* a degenerate contour (0), areas just below, at and just above
\* min_room_area_pixels, and areas just below and at 0.85 of the largest.
FamilyAreas == {0, 9998, 10000, 10002, 169998, 170000, 200000}

\* The contour lists of at most MaxFamily contours: extract_rooms_from_hierarchy
\* reads of a contour its area and hierarchy[idx][3] only, and findContours
\* numbers a parent before its children.
RECURSIVE Families(_)
Families(n) ==
    IF n = 0 THEN {<<>>}
    ELSE { Append(cs, [area2 |-> a, parent |-> q]) :
             cs \in Families(n - 1), a \in FamilyAreas,
             q \in {-1} \cup (1..(n - 1)) }

InitHierarchy ==
    /\ pc = "hierarchy"
    /\ \E n \in 1..MaxFamily : contours \in Families(n)
    /\ gray = None /\ prep_analysis = None /\ mask = None /\ analysis = None
    /\ config = None /\ candidate_rooms = <<>> /\ valid_rooms = <<>>
    /\ rooms = <<>> /\ rooms_in = <<>>
    /\ edge_widths = <<>> /\ filled_ratios = <<>> /\ thicknesses = <<>>
    /\ avg_thickness = -1 /\ scored = <<>>
    /\ DoorIdle /\ NormIdle /\ LateIdle

\* Lines 127-188: one call of extract_rooms_from_hierarchy.
ExtractFromHierarchy ==
    /\ pc = "hierarchy"
    /\ candidate_rooms' = extract_rooms_from_hierarchy(contours)
    /\ pc' = "hierarchy_done"
    /\ UNCHANGED <<gray, prep_analysis, mask, analysis, config, contours,
                   valid_rooms, rooms, rooms_in, thickVars, scored, doorVars,
                   normVars, lateVars>>

NextHierarchy == ExtractFromHierarchy

SpecHierarchy == InitHierarchy /\ [][NextHierarchy]_vars

-----------------------------------------------------------------------------
(* evaluate_detection.py: match_rooms                                      *)

\* Lines 20-52: the IoU of two normalized boxes; boxes that only touch have
\* IoU 0.
calculate_iou_normalized(box1, box2) ==
    LET inter_xmin == Max(box1[1], box2[1])
        inter_ymin == Max(box1[2], box2[2])
        inter_xmax == Min(box1[3], box2[3])
        inter_ymax == Min(box1[4], box2[4])
        inter_area == (inter_xmax - inter_xmin) * (inter_ymax - inter_ymin)
        box1_area == (box1[3] - box1[1]) * (box1[4] - box1[2])
        box2_area == (box2[3] - box2[1]) * (box2[4] - box2[2])
        union_area == box1_area + box2_area - inter_area
    IN  IF inter_xmax <= inter_xmin \/ inter_ymax <= inter_ymin THEN FZero
        ELSE IF union_area > 0 THEN Frac(inter_area, union_area)
        ELSE FZero

\* Lines 69-78.
IouMatrix(gt, det) ==
    [i \in DOMAIN gt |->
        [j \in DOMAIN det |->
            calculate_iou_normalized(gt[i].bounding_box_normalized,
                                     det[j].bounding_box_normalized)]]

\* The scan that skips matched ground-truth rows only: a detected room can be
\* taken again.
MaxPos_DetectedReused(matrix, m_gt, m_det, threshold) ==
    LET open == { <<i, j>> \in (DOMAIN matrix) \X (1..(IF matrix = <<>> THEN 0 ELSE Len(matrix[1]))) :
                    /\ (i - 1) \notin m_gt
                    /\ FLeq(Frac(threshold, 100), matrix[i][j])
                    /\ FLt(FZero, matrix[i][j]) }
    IN  IF open = {} THEN <<>>
        ELSE CHOOSE p \in open :
                \A q \in open :
                    \/ FLt(matrix[q[1]][q[2]], matrix[p[1]][p[2]])
                    \/ /\ matrix[q[1]][q[2]] = matrix[p[1]][p[2]]
                       /\ (p[1] < q[1] \/ (p[1] = q[1] /\ p[2] <= q[2]))

\* Lines 81-92: max_pos after one scan of the matrix, <<>> for None.  The
\* scan runs row by row and replaces max_pos only on a strictly larger IoU,
\* so of the open pairs of largest IoU it ends on the first; max_iou starts at
\* 0.0, so a pair of IoU 0 is never taken.
MaxPos(matrix, m_gt, m_det, threshold) ==
    LET open == { <<i, j>> \in (DOMAIN matrix) \X (1..(IF matrix = <<>> THEN 0 ELSE Len(matrix[1]))) :
                    /\ (i - 1) \notin m_gt
                    /\ (j - 1) \notin m_det
                    /\ FLeq(Frac(threshold, 100), matrix[i][j])
                    /\ FLt(FZero, matrix[i][j]) }
    IN  IF open = {} THEN <<>>
        ELSE CHOOSE p \in open :
                \A q \in open :
                    \/ FLt(matrix[q[1]][q[2]], matrix[p[1]][p[2]])
                    \/ /\ matrix[q[1]][q[2]] = matrix[p[1]][p[2]]
                       /\ (p[1] < q[1] \/ (p[1] = q[1] /\ p[2] <= q[2]))

\* The most rooms in either list given to match_rooms.
MaxMatchRooms == 2

\* Normalized boxes, in 1/10000: the left and the right half of the upper
\* half plane, which touch (IoU 0), and the upper half of the left one (IoU
\* exactly 0.5 with it).
MatchBoxes == { <<0, 0, 5000, 5000>>, <<5000, 0, 10000, 5000>>,
                <<0, 0, 5000, 2500>> }

RECURSIVE MatchRoomLists(_)
MatchRoomLists(n) ==
    IF n = 0 THEN {<<>>}
    ELSE MatchRoomLists(n - 1)
         \cup { Append(rs, [bounding_box_normalized |-> b]) :
                  rs \in { l \in MatchRoomLists(n - 1) : Len(l) = n - 1 },
                  b \in MatchBoxes }

\* iou_threshold of a call, in hundredths: 0.5 is the default.
MatchThresholds == {0, 50}

InitMatch ==
    /\ pc = "match"
    /\ ground_truth_rooms \in MatchRoomLists(MaxMatchRooms)
    /\ match_detected \in MatchRoomLists(MaxMatchRooms)
    /\ match_threshold \in MatchThresholds
    /\ iou_matrix = <<>> /\ matches = <<>> /\ matched_gt = {} /\ matched_det = {}
    /\ unmatched_gt = <<>> /\ unmatched_det = <<>>
    /\ RoomIdle /\ DoorIdle /\ NormIdle /\ CfgIdle /\ UniIdle /\ ConcIdle /\ ReqIdle

MatchFrame == UNCHANGED <<pipeVars, thickVars, scored, doorVars, normVars,
                          cfgVars, uniVars, concVars, reqVars,
                          ground_truth_rooms, match_detected, match_threshold>>

\* Lines 64-78.
MatchMatrix ==
    /\ pc = "match"
    /\ iou_matrix' = IouMatrix(ground_truth_rooms, match_detected)
    /\ pc' = "matching"
    /\ UNCHANGED <<matches, matched_gt, matched_det, unmatched_gt, unmatched_det>>
    /\ MatchFrame

\* Lines 81-100: one turn of the loop that finds a pair.
MatchPair ==
    /\ pc = "matching"
    /\ LET max_pos == MaxPos(iou_matrix, matched_gt, matched_det, match_threshold)
       IN  /\ max_pos # <<>>
           /\ matches' = Append(matches,
                                [gt_idx |-> max_pos[1] - 1, det_idx |-> max_pos[2] - 1,
                                 iou |-> iou_matrix[max_pos[1]][max_pos[2]]])
           /\ matched_gt' = matched_gt \cup {max_pos[1] - 1}
           /\ matched_det' = matched_det \cup {max_pos[2] - 1}
    /\ UNCHANGED <<pc, iou_matrix, unmatched_gt, unmatched_det>>
    /\ MatchFrame

\* Lines 81-95 and 102-106: the turn that finds none, and the return.
MatchReturn ==
    /\ pc = "matching"
    /\ MaxPos(iou_matrix, matched_gt, matched_det, match_threshold) = <<>>
    /\ unmatched_gt' = AscSeq({i \in 0..(Len(ground_truth_rooms) - 1) : i \notin matched_gt})
    /\ unmatched_det' = AscSeq({i \in 0..(Len(match_detected) - 1) : i \notin matched_det})
    /\ pc' = "matched"
    /\ UNCHANGED <<iou_matrix, matches, matched_gt, matched_det>>
    /\ MatchFrame

NextMatch == MatchMatrix \/ MatchPair \/ MatchReturn

\* match_rooms is a sequential function: a step that can be taken is taken.
SpecMatch == InitMatch /\ [][NextMatch]_vars /\ WF_vars(NextMatch)

-----------------------------------------------------------------------------
(* Properties                                                              *)

\* The contour a room of the run was built from: its id is its position in
\* valid_rooms.
ContourOf(room) == contours[valid_rooms[room.id + 1]]

HierarchyCount == Len(extract_rooms_from_hierarchy(contours))

\* C1: every room returned by a run of detect_rooms_adaptive has its
\* area_pixels within [min_room_area_pixels, max_room_area_pixels] of the
\* run's config (the adaptive minimum, the configured maximum).
C1_AreaWithinRunBand ==
    pc = "done" =>
        \A i \in DOMAIN rooms :
            /\ config.min_room_area_pixels <= rooms[i].area_pixels
            /\ rooms[i].area_pixels <= config.max_room_area_pixels

\* C2 (as claimed): every room returned comes from a contour that has a
\* parent, in every run, the runs that take the size-based fallback included.
C2_EveryRoomHasParent ==
    pc = "done" => \A i \in DOMAIN rooms : ContourOf(rooms[i]).parent # -1

\* C2 (amended): a room returned from a top-level contour comes from the
\* size-based fallback: the hierarchy scan found fewer than 3 candidates and
\* the contour's area lies strictly inside the run's size band.  When the
\* hierarchy scan finds 3 candidates or more, every room has a parent.
C2_TopLevelOnlyByFallback ==
    pc = "done" =>
        \A i \in DOMAIN rooms :
            ContourOf(rooms[i]).parent = -1 =>
                /\ HierarchyCount < 3
                /\ 2 * config.min_room_area_pixels < ContourOf(rooms[i]).area2
                /\ ContourOf(rooms[i]).area2 < 2 * config.max_room_area_pixels

\* A run without the fallback that returns rooms, next to a top-level contour
\* whose area is inside the size band.
C2_Witness ==
    /\ pc = "done"
    /\ HierarchyCount >= 3
    /\ rooms # <<>>
    /\ \E k \in DOMAIN contours :
          /\ contours[k].parent = -1
          /\ 2 * config.min_room_area_pixels < contours[k].area2
          /\ contours[k].area2 < 2 * config.max_room_area_pixels

IoUAbove(r1, r2, iou_threshold) ==
    FLt(Frac(iou_threshold, 100), calculate_iou(r1.bounding_box, r2.bounding_box))

\* C3: after remove_duplicates, and after the sort and truncation that
\* follow, no two rooms of the list have an IoU above iou_threshold.
C3_PairwiseIoUBounded ==
    pc \in {"step7", "done"} =>
        \A i, j \in DOMAIN rooms :
            i # j => ~IoUAbove(rooms[i], rooms[j], config.iou_threshold)

\* A list that lost a room and keeps two rooms that overlap at an IoU of
\* exactly the threshold.
C3_Witness ==
    /\ pc = "done"
    /\ Len(rooms) < Len(rooms_in)
    /\ \E i, j \in DOMAIN rooms :
          /\ i # j
          /\ calculate_iou(rooms[i].bounding_box, rooms[j].bounding_box)
                = Frac(config.iou_threshold, 100)

\* C4: remove_duplicates keeps the highest-confidence candidate (the first
\* one in the input order among those with the highest score), and every
\* candidate it drops has an IoU above the threshold with a kept candidate of
\* greater or equal confidence.
C4_HighestKeptDroppedCovered ==
    pc = "step7" =>
        LET kept == Range(rooms)
            dropped == Range(rooms_in) \ kept
        IN  /\ \A i \in DOMAIN rooms_in :
                  ( /\ \A j \in DOMAIN rooms_in :
                          rooms_in[j].confidence_score <= rooms_in[i].confidence_score
                    /\ \A j \in 1..(i - 1) :
                          rooms_in[j].confidence_score < rooms_in[i].confidence_score )
                  => rooms_in[i] \in kept
            /\ \A d \in dropped :
                  \E k \in kept :
                      /\ k.confidence_score >= d.confidence_score
                      /\ IoUAbove(k, d, config.iou_threshold)
            /\ kept \subseteq Range(rooms_in)

\* The first room of the input is dropped for a later one of higher
\* confidence, and a room of the middle of a chain is kept.
C4_Witness ==
    /\ pc = "step7"
    /\ Len(rooms_in) = 3
    /\ Len(rooms) = 2
    /\ rooms_in[1] \notin Range(rooms)
    /\ \E k \in Range(rooms) : k.confidence_score > rooms_in[1].confidence_score

\* The decision table of C5.
StyleTable(wall_thickness, line_density) ==
    CASE wall_thickness > 80 /\ line_density < 500 -> "clean_cad"
      [] wall_thickness > 80 /\ line_density >= 500 -> "detailed_cad"
      [] wall_thickness <= 80 /\ line_density < 500 -> "simple_line_drawing"
      [] wall_thickness <= 80 /\ line_density >= 500 -> "detailed_line_drawing"

\* C5: the style follows the decision table over (wall_thickness,
\* line_density) whatever the contrast and the noise; (10, 0.03) is clean_cad
\* and (10, 0.08) is detailed_cad.
C5_StyleFollowsTable ==
    pc = "analyzed" =>
        /\ prep_analysis.style = StyleTable(gray.wall_thickness, gray.line_density)
        /\ (gray.wall_thickness = 100 /\ gray.line_density = 300)
              => prep_analysis.style = "clean_cad"
        /\ (gray.wall_thickness = 100 /\ gray.line_density = 800)
              => prep_analysis.style = "detailed_cad"

\* (10, 0.08) at a noise above 0.3 classified detailed_cad.
C5_Witness ==
    /\ pc = "analyzed"
    /\ gray.wall_thickness = 100 /\ gray.line_density = 800
    /\ gray.noise_level > 30
    /\ prep_analysis.style = "detailed_cad"

\* C6: the adaptive filter accepts no candidate whose bounding box has an
\* aspect ratio max(w, h) / min(w, h) above 8.
C6_NoSliverAccepted ==
    \A k \in DOMAIN valid_rooms :
        LET c == contours[valid_rooms[k]]
        IN  Max(c.w, c.h) <= 8 * Min(c.w, c.h)

RatioOf(e) == Frac(Max(e.contour.w, e.contour.h), Min(e.contour.w, e.contour.h))

\* C7: aspect_score is 1 up to ratio 3, does not rise as the ratio grows
\* beyond 3, is 0.5 at ratio 8 and 0 beyond 8, and is the same for every
\* style.
C7_AspectScoreShape ==
    /\ \A i \in DOMAIN scored :
          /\ FLeq(RatioOf(scored[i]), FInt(3)) => scored[i].metrics.aspect_score = FOne
          /\ RatioOf(scored[i]) = FInt(8) => scored[i].metrics.aspect_score = Frac(1, 2)
          /\ FLt(FInt(8), RatioOf(scored[i])) => scored[i].metrics.aspect_score = FZero
    /\ \A i, j \in DOMAIN scored :
          /\ (FLeq(FInt(3), RatioOf(scored[i])) /\ FLeq(RatioOf(scored[i]), RatioOf(scored[j])))
                => FLeq(scored[j].metrics.aspect_score, scored[i].metrics.aspect_score)
          /\ RatioOf(scored[i]) = RatioOf(scored[j])
                => scored[i].metrics.aspect_score = scored[j].metrics.aspect_score

\* Under two different weightings, a ratio of 5 scored 0.8 and then a ratio
\* of 8 scored 0.5.
C7_Witness ==
    /\ Len(scored) = 2
    /\ StyleWeights(scored[1].style) # StyleWeights(scored[2].style)
    /\ RatioOf(scored[1]) = FInt(5) /\ scored[1].metrics.aspect_score = Frac(4, 5)
    /\ RatioOf(scored[2]) = FInt(8) /\ scored[2].metrics.aspect_score = Frac(1, 2)

InUnit(f) == FLeq(FZero, f) /\ FLeq(f, FOne)

\* C8: for every candidate and style tag the score lies in [0, 1]: the four
\* component scores lie in [0, 1] and the weights are non-negative and sum
\* to 1.
C8_ScoreInUnitInterval ==
    \A i \in DOMAIN scored :
        LET m == scored[i].metrics
        IN  /\ InUnit(m.final_score)
            /\ InUnit(m.solidity_score) /\ InUnit(m.extent_score)
            /\ InUnit(m.aspect_score) /\ InUnit(m.size_score)
            /\ m.weights.solidity >= 0 /\ m.weights.extent >= 0
            /\ m.weights.aspect_ratio >= 0 /\ m.weights.size >= 0
            /\ m.weights.solidity + m.weights.extent + m.weights.aspect_ratio
                  + m.weights.size = 100

\* A CAD candidate scored above 0.95 and a candidate scored under an unknown
\* style tag.
C8_Witness ==
    /\ Len(scored) = 2
    /\ scored[1].style = "clean_cad"
    /\ FLt(Frac(95, 100), scored[1].metrics.final_score)
    /\ scored[2].style \notin StyleTags
    /\ FLt(FZero, scored[2].metrics.final_score)

InBand == {i \in DOMAIN filled_ratios : 50 < filled_ratios[i] /\ filled_ratios[i] < 150}

FirstInBand == CHOOSE i \in InBand : \A j \in InBand : i <= j

\* C9 (as claimed): the estimate is 3 px times the first iteration whose
\* filled ratio is in (0.05, 0.15), also when several iterations are in the
\* band; the median contour width is taken only when none is.
C9_FirstIterationInBand ==
    (pc = "estimated" /\ edge_widths # <<>>) =>
        IF InBand # {} THEN avg_thickness = 10 * (3 * FirstInBand)
        ELSE avg_thickness = MedianWidth(edge_widths)

\* C9 (amended): the estimate is 3 px times the mean of all the iterations
\* (1..14) whose filled ratio is in (0.05, 0.15), which is 3 px times the
\* first one only when a single iteration is in the band; the median contour
\* width is taken only when none is, and 5.0 when there are no edge contours.
C9_MeanOfIterationsInBand ==
    pc = "estimated" =>
        IF edge_widths = <<>> THEN avg_thickness = 50
        ELSE IF InBand # {}
            THEN avg_thickness * Cardinality(InBand) = 10 * 3 * SumSeq(AscSeq(InBand))
        ELSE avg_thickness = MedianWidth(edge_widths)

\* Iterations 2, 3 and 4 in the band: the estimate is 9 px, not 6 px.
C9_Witness ==
    /\ pc = "estimated"
    /\ InBand = {2, 3, 4}
    /\ avg_thickness = 90

\* C10: in one run the style and the parameter set the conditioner used are
\* the style and the parameter set the room extractor and scorer use.
C10_OneProfilePerRun ==
    pc \notin {"start", "preprocessed"} =>
        /\ analysis.style = prep_analysis.style
        /\ analysis.recommended_params = prep_analysis.recommended_params


\* C11: for every style tag and every (wall_thickness, line_density),
\* get_adaptive_parameters returns a morph_open_size within [2, 11] that is
\* the style's base value plus 2 (at most 11) when line_density > 0.08, minus 2
\* (at least 2) when line_density < 0.03 and the base value otherwise, and a
\* min_room_area_pixels that is the base value times 0.8 when
\* wall_thickness > 10, times 1.2 when wall_thickness < 5 and the base value
\* otherwise.
C11_ParametersFollowCorrections ==
    pc = "recommended" =>
        LET base == BaseParams(analysis.style)
            d == analysis.line_density
            t == analysis.wall_thickness
        IN  /\ config.morph_open_size \in 2..11
            /\ d > 800 => config.morph_open_size = Min(base.morph_open_size + 2, 11)
            /\ d < 300 => config.morph_open_size = Max(base.morph_open_size - 2, 2)
            /\ (d >= 300 /\ d <= 800) =>
                   config.morph_open_size = base.morph_open_size
            /\ t > 100 =>
                   10 * config.min_room_area_pixels = 8 * base.min_room_area_pixels
            /\ t < 50 =>
                   10 * config.min_room_area_pixels = 12 * base.min_room_area_pixels
            /\ (t >= 50 /\ t <= 100) =>
                   config.min_room_area_pixels = base.min_room_area_pixels

\* A simple line drawing with very few lines and thin walls: the kernel is
\* held at 2 by the clamp and the minimum area grows to 3600.
C11_Witness ==
    /\ pc = "recommended"
    /\ analysis.style = "simple_line_drawing"
    /\ analysis.line_density = 200
    /\ analysis.wall_thickness = 45
    /\ config.morph_open_size = 2
    /\ config.min_room_area_pixels = 3600


\* The regions of the run whose area alone lies in the run's size band
\* [min_room_area_pixels, max_room_area_pixels].
InSizeBand ==
    {idx \in 1..Len(contours) :
        /\ 2 * config.min_room_area_pixels <= contours[idx].area2
        /\ contours[idx].area2 <= 2 * config.max_room_area_pixels}

\* C12: when fewer than 3 candidates come out of the hierarchy scan, the
\* candidate list is the duplicate-free union of the hierarchy candidates and
\* every region whose area alone is in the size band; when 3 or more come
\* out, the candidate list is exactly the hierarchy candidates.
C12_FallbackIsUnionWithBand ==
    pc = "step3" =>
        LET hier == extract_rooms_from_hierarchy(contours)
        IN  IF Len(hier) < 3
                THEN /\ Range(candidate_rooms) = Range(hier) \cup InSizeBand
                     /\ Cardinality(Range(candidate_rooms)) = Len(candidate_rooms)
            ELSE candidate_rooms = hier


\* The rooms the scale stage of the claim keeps: all of them below 4 rooms,
\* else those not below both max(median - 2 * std, 0.3 * median) and
\* 0.25 * median of the areas of the list.
ScaleKept(rs) ==
    LET m2 == Median2([i \in DOMAIN rs |-> rs[i].area_pixels])
        Kept(r) == ~( /\ BelowMinReasonable(r.area_pixels, rs)
                      /\ 8 * r.area_pixels < m2 )
    IN  IF Len(rs) < 4 THEN rs ELSE SelectSeq(rs, Kept)

\* C13: the scale-context filter is skipped when fewer than 4 rooms were
\* accepted; with 4 or more it drops exactly the rooms whose area is below
\* both max(median - 2 * std, 0.3 * median) and 0.25 * median of the
\* pre-filter areas, and keeps every other room unchanged, in order.
C13_ScaleFilterDropsOutliers ==
    [][pc = "step5" => rooms' = ScaleKept(rooms)]_vars

\* The stage has dropped one of four accepted rooms.
C13_Witness ==
    /\ pc = "step6"
    /\ Len(valid_rooms) = 4
    /\ Len(rooms) = 3


\* C14: the list returned by room detection is ordered by non-increasing
\* area_pixels and has at most max_rooms (50) entries; when more rooms
\* survive duplicate resolution, the returned rooms are max_rooms of them and
\* no room left out has a larger area than a returned one.
C14_SortedAndLimited ==
    [][pc = "step7" =>
         /\ \A i \in 1..(Len(rooms') - 1) :
                rooms'[i].area_pixels >= rooms'[i + 1].area_pixels
         /\ Len(rooms') = Min(Len(rooms), config.max_rooms)
         /\ Range(rooms') \subseteq Range(rooms)
         /\ \A out \in Range(rooms) \ Range(rooms'), kept \in Range(rooms') :
                out.area_pixels <= kept.area_pixels]_vars

\* A returned list of 50 rooms that holds the 51st room of the list that
\* reached step 7: the list was truncated and that room was among the largest.
C14_Witness ==
    /\ pc = "done"
    /\ Len(rooms) = 50
    /\ \E r \in Range(rooms) : r.id = 50


EdgePoints ==
    Cardinality({k \in 1..SampleCount : SampledPixel(edge_image, circle, k) = "set"})

\* C15: a detected circle is accepted as a door arc if and only if the
\* fraction of its 36 perimeter samples that lie on a set pixel is strictly
\* between 0.20 and 0.45; a full circle is rejected and an arc spanning 90
\* to 100 degrees, at any starting angle, is accepted.
C15_ArcAcceptedByCoverage ==
    pc = "arc_done" =>
        /\ is_partial <=> (20 * 36 < 100 * EdgePoints /\ 100 * EdgePoints < 45 * 36)
        /\ (circle.out = NoArc /\ edge_image.span = FullTurn) => ~is_partial
        /\ (circle.out = NoArc /\ edge_image.span \in 630..700) => is_partial
        /\ is_partial <=> doorways = <<ArcDoorway(circle.x, circle.y, circle.r)>>

\* A 90 degree arc that 8 of the 36 samples meet (coverage 0.22) and that is
\* accepted.
C15_Witness ==
    /\ pc = "arc_done"
    /\ circle.out = NoArc
    /\ edge_image.span = 630
    /\ EdgePoints = 8
    /\ is_partial


DoorClose(d1, d2) == Dist2(d1, d2) < 400

\* C16: after doorway deduplication no two remaining doorways have centers
\* closer than 20 px, and every removed doorway lies within 20 px of a kept
\* doorway whose confidence is greater than or equal to its own; when an arc
\* (0.8) and a gap (0.5) lie within 20 px of each other the gap is not kept,
\* and the arc is kept unless an arc before it lies within 20 px of it.
C16_DoorwaysApartAndCovered ==
    pc = "door_map" =>
        LET kept == Range(doorways)
            found == Range(doorways_in)
        IN  /\ kept \subseteq found
            /\ \A i, j \in DOMAIN doorways :
                   i # j => ~DoorClose(doorways[i], doorways[j])
            /\ \A d \in found \ kept :
                   \E k \in kept : DoorClose(d, k) /\ k.confidence >= d.confidence
            /\ \A a, g \in found :
                   ( /\ a.type = "arc" /\ a.confidence = 80
                     /\ g.type = "gap" /\ g.confidence = 50
                     /\ DoorClose(a, g) )
                   => /\ g \notin kept
                      /\ \/ a \in kept
                         \/ \E b \in kept : b.type = "arc" /\ DoorClose(a, b)

\* The arc on the shared wall, the gap 11 px from it and the gap exactly 20 px
\* from it were found: the arc and the second gap are kept, the first gap is
\* not.
C16_Witness ==
    /\ pc = "door_map"
    /\ DoorCatalogue[1] \in Range(doorways)
    /\ DoorCatalogue[3] \in Range(doorways_in) \ Range(doorways)
    /\ DoorCatalogue[4] \in Range(doorways)

\* C17: in detect_doorways a doorway that touches zero rooms has its
\* confidence halved and an empty connects_rooms list, and is dropped from the
\* result when require_room_proximity is set, in every call, also when the
\* room list is absent or empty.
C17_UnconnectedHalvedOrDropped ==
    pc = "door_cap" =>
        \A d \in Range(doorways_in) :
            AdjacentRooms(d, door_rooms.list) = <<>> =>
                IF door_config.require_room_proximity
                    THEN \A k \in Range(doorways) : k.center # d.center
                ELSE \E k \in Range(doorways) :
                        /\ k.center = d.center
                        /\ 2 * k.confidence = d.confidence
                        /\ k.has_connects_rooms
                        /\ k.connects_rooms = <<>>

\* The doorways a call may return at most, by the claim: room count times
\* max_doorways_per_room.
RoomCount == Len(door_rooms.list)

\* C18 as stated: the number of doorways returned never exceeds room count
\* times max_doorways_per_room.
C18_AtMostPerRoom ==
    pc = "door_done" =>
        Len(doorways) <= RoomCount * door_config.max_doorways_per_room

\* C18, amended: the number of doorways returned never exceeds room count
\* times max_doorways_per_room when the room list is given and not empty,
\* and 50 when it is absent or empty; when the cap applies, no dropped
\* doorway has a higher confidence than a kept one.
C18_CappedByConfidence ==
    pc = "door_done" =>
        LET cap == IF RoomCount > 0
                       THEN RoomCount * door_config.max_doorways_per_room
                   ELSE 50
            Returned(d) == \E k \in Range(doorways) : k.center = d.center
        IN  /\ Len(doorways) = Min(Len(doorways_in), cap)
            /\ \A k \in Range(doorways) :
                   \E d \in Range(doorways_in) :
                       d.center = k.center /\ d.confidence = k.confidence
            /\ \A d \in Range(doorways_in), k \in Range(doorways) :
                   ~Returned(d) => d.confidence <= k.confidence
            /\ \A i \in DOMAIN doorways : doorways[i].id = i - 1

\* One room, one doorway a room: of a halved arc far from the room (0.4) and
\* a gap on its wall (0.5), found in that order, the gap is the one returned.
C18_Witness ==
    /\ pc = "door_done"
    /\ RoomCount = 1
    /\ Len(doorways_in) = 2
    /\ doorways_in[1].confidence = 40
    /\ Len(doorways) = 1
    /\ doorways[1].confidence = 50


\* The items of the normalized list, and whether an item's pixel box lies
\* inside the image.
NormDone == pc \in {"normalized", "denormalized"}
InsideImage(bb) ==
    /\ 0 <= bb[1] /\ bb[1] <= bb[3] /\ bb[3] <= original_shape[2]
    /\ 0 <= bb[2] /\ bb[2] <= bb[4] /\ bb[4] <= original_shape[1]

\* C19: for every room and doorway item normalized against the image's width
\* and height, each of the four components of bounding_box_normalized lies
\* in [0, 1] (0..10000 in units of 0.0001, the fourth decimal), arc doorways
\* with the circle's enclosing square as bounding box included.
C19_NormalizedInUnitInterval ==
    NormDone =>
        \A i \in DOMAIN items : \A k \in 1..4 :
            items[i].bounding_box_normalized[k] \in 0..10000

\* What holds of C19: the components are in [0, 1] for every item whose
\* pixel box lies inside the image.
C19_InsideBoxesInUnitInterval ==
    NormDone =>
        \A i \in DOMAIN items :
            InsideImage(items[i].item.bounding_box) =>
                \A k \in 1..4 : items[i].bounding_box_normalized[k] \in 0..10000

\* An arc doorway has been normalized.
C19_Witness ==
    /\ NormDone
    /\ \E i \in DOMAIN items :
           /\ items[i].item.type = "arc"
           /\ InsideImage(items[i].item.bounding_box)

\* The round trip of the i-th item: denormalized for the image's own width
\* and height, the box is the original x_min, y_min, width and height, each
\* within 1 px.
RoundTrip(i) ==
    LET bb == items[i].item.bounding_box
        box == pixel_box.boxes[i]
    IN  /\ Abs(box.x - bb[1]) <= 1
        /\ Abs(box.y - bb[2]) <= 1
        /\ Abs(box.width - (bb[3] - bb[1])) <= 1
        /\ Abs(box.height - (bb[4] - bb[2])) <= 1
SameDimensions ==
    /\ pc = "denormalized"
    /\ pixel_box.target_height = original_shape[1]
    /\ pixel_box.target_width = original_shape[2]

\* C20 as stated: for every pixel bounding box inside an image,
\* denormalize_coordinates applied to its bounding_box_normalized with the
\* same width and height recovers x_min, y_min, width and height each within
\* 1 px.
C20_RoundTripWithinOnePixel ==
    SameDimensions =>
        \A i \in DOMAIN items :
            InsideImage(items[i].item.bounding_box) => RoundTrip(i)

\* C20, amended: the round trip is within 1 px for every pixel bounding box
\* inside an image whose width and height are at most 10000 px.
C20_RoundTripUpTo10000 ==
    (SameDimensions /\ original_shape[1] <= 10000 /\ original_shape[2] <= 10000) =>
        \A i \in DOMAIN items :
            InsideImage(items[i].item.bounding_box) => RoundTrip(i)

\* A round trip in an image of at most 10000 px a side that loses a pixel.
C20_Witness ==
    /\ SameDimensions
    /\ original_shape[1] <= 10000 /\ original_shape[2] <= 10000
    /\ \E i \in DOMAIN items :
           /\ InsideImage(items[i].item.bounding_box)
           /\ pixel_box.boxes[i].x = items[i].item.bounding_box[1] - 1


\* A call whose arguments are a configuration error: a preset that is not
\* defined, a style nobody knows, a measurement outside its range.
ConfigurationError ==
    \/ /\ call.fn = "apply_preset"
       /\ call.preset_name \notin DOMAIN PRESETS
    \/ /\ call.fn = "get_adaptive_parameters"
       /\ \/ call.style \notin ScoreStyles
          \/ call.wall_thickness <= 0
          \/ call.line_density \notin 0..10000
          \/ call.contrast < 0

\* C21: a configuration error (unknown preset or style name, out-of-range
\* parameter value) raises an error and never yields a parameter set.
C21_ConfigurationErrorsRejected ==
    (pc = "config" /\ ConfigurationError) => raised # None

\* What holds of C21: an unknown preset name raises ValueError.
C21_UnknownPresetRejected ==
    (pc = "config" /\ call.fn = "apply_preset"
        /\ call.preset_name \notin DOMAIN PRESETS) => raised = "ValueError"

\* C22: after any sequence of apply_preset calls (valid or unknown names)
\* and configurations of adaptive runs, the module-level PREPROCESSING,
\* DETECTION, PRESETS and DETECTION_CONFIG are what they were at import.
C22_SharedDefaultsUnchanged ==
    pc = "config" => shared = SharedDefaults

\* A preset has been applied and a run configured, each with values that
\* differ from the defaults.
C22_Witness ==
    /\ pc = "config"
    /\ shared = SharedDefaults
    /\ \/ /\ call.fn = "apply_preset" /\ raised = None
          /\ returned[1] # PREPROCESSING /\ returned[2] # DETECTION
       \/ /\ call.fn = "detect_rooms_adaptive"
          /\ returned # DETECTION_CONFIG


\* C23: for a uniform-intensity raster of any size the analyzer returns
\* wall_thickness 5.0, there are zero candidate regions, and room detection
\* returns an empty list.
C23_UniformRasterNoRooms ==
    /\ pc \notin {"uniform"} => analysis.wall_thickness = 50
    /\ pc \notin {"uniform", "uniform_step1", "step2"} => candidate_rooms = <<>>
    /\ pc = "done" => rooms = <<>>

\* What holds of C23: wall_thickness is 5.0 and the hierarchy scan finds no
\* candidate; an all-zero raster, and one whose area is outside the size band
\* of the run, gives the empty list.
C23_UniformOutsideBandNoRooms ==
    /\ pc \notin {"uniform"} => analysis.wall_thickness = 50
    /\ pc = "step2" => extract_rooms_from_hierarchy(contours) = <<>>
    /\ (pc = "done"
          /\ \/ image.value = 0
             \/ (image.width - 1) * (image.height - 1) <= 3000
             \/ (image.width - 1) * (image.height - 1) >= 500000)
         => rooms = <<>>


\* C24: under every interleaving of the invocations, the rooms and doorways
\* of each invocation are those of the same invocation running alone.
C24_ResultsAsAlone ==
    pc = "serving" =>
        \A i \in DOMAIN inv :
            /\ inv[i].pc \in {"rooms", "done"} =>
                   inv[i].rooms = Alone(inv[i].request).rooms
            /\ inv[i].pc = "done" =>
                   inv[i].doorways = Alone(inv[i].request).doorways

\* An invocation has finished with rooms and doorways while another one,
\* configured differently, is between its step 0 and its hierarchy scan.
C24_Witness ==
    /\ pc = "serving"
    /\ \E i, j \in DOMAIN inv :
           /\ inv[i].pc = "done" /\ inv[i].rooms # <<>> /\ inv[i].doorways # <<>>
           /\ inv[j].pc = "step1"
           /\ inv[j].request.mask # inv[i].request.mask


\* C25: when validate_image_data rejects an upload (smaller than 10,000
\* bytes, larger than 10,485,760 bytes, or without a PNG/JPEG/PDF signature),
\* lambda_handler and /detect answer 422 with error_code INVALID_IMAGE.
C25_RejectedUploadIs422 ==
    (pc = "rejected" /\ validate_image_data(upload) # NoException) =>
        response = ErrorResponse(422, "INVALID_IMAGE")

\* What holds of C25: a rejected upload is never processed; lambda_handler
\* answers 422 INVALID_IMAGE when the request holds no image at all.
C25_RejectedUploadNotProcessed ==
    /\ validate_image_data(upload) # NoException => pc \notin {"processed", "answered"}
    /\ (pc = "rejected" /\ upload.handler = "lambda_handler" /\ upload.size = 0)
          => response = ErrorResponse(422, "INVALID_IMAGE")


\* C26: after the mapping of doorways to rooms, every doorway with a
\* non-empty connects_rooms list connects one or two rooms.
C26_ConnectsOneOrTwoRooms ==
    (pc \in {"door_cap", "door_done"} /\ Truthy(door_rooms)) =>
        \A i \in DOMAIN doorways :
            doorways[i].connects_rooms # <<>> =>
                Len(doorways[i].connects_rooms) \in {1, 2}

\* What holds of C26: connects_rooms lists, in the order of the room list,
\* exactly the rooms the doorway is adjacent to, each once.
C26_ConnectsAdjacentRooms ==
    (pc \in {"door_cap", "door_done"} /\ Truthy(door_rooms)) =>
        \A i \in DOMAIN doorways :
            /\ doorways[i].connects_rooms = AdjacentRooms(doorways[i], door_rooms.list)
            /\ Len(doorways[i].connects_rooms) <= Len(door_rooms.list)


\* C27: every index extract_rooms_from_hierarchy returns denotes a region
\* whose parent has positive area and whose area divided by its parent's area
\* lies strictly between min_area_ratio_to_parent (0.05) and
\* max_area_ratio_to_parent (0.85); a region whose parent has zero area is
\* never a candidate.
C27_CandidatesStrictlyInsideParent ==
    pc = "hierarchy_done" =>
        /\ \A k \in DOMAIN candidate_rooms :
              LET c == contours[candidate_rooms[k]]
              IN  /\ c.parent # -1
                  /\ contours[c.parent].area2 > 0
                  /\ 5 * contours[c.parent].area2 < 100 * c.area2
                  /\ 100 * c.area2 < 85 * contours[c.parent].area2
        /\ \A idx \in DOMAIN contours :
              (contours[idx].parent # -1
                  /\ contours[contours[idx].parent].area2 = 0)
                  => \A k \in DOMAIN candidate_rooms : candidate_rooms[k] # idx

\* A hierarchy with a region of ratio exactly 0.05, one of ratio exactly 0.85
\* and one just inside the bounds, of which only the last is a candidate.
C27_Witness ==
    /\ pc = "hierarchy_done"
    /\ contours = << [area2 |-> 200000, parent |-> -1],
                     [area2 |-> 10000, parent |-> 1],
                     [area2 |-> 10002, parent |-> 1] >>
    /\ candidate_rooms = <<3>>

\* A region large enough to be a room whose parent is a degenerate contour of
\* area zero, and which is not a candidate.
C27_ZeroParentWitness ==
    /\ pc = "hierarchy_done"
    /\ contours = << [area2 |-> 0, parent |-> -1],
                     [area2 |-> 10002, parent |-> 1] >>
    /\ candidate_rooms = <<>>


\* C28: for every numeric (wall_thickness, line_density, contrast, noise),
\* classify_blueprint_style returns one of the four thickness/density styles;
\* scanned and mixed_style are never returned, so the scanned base parameters
\* and the balanced weight vector are never selected.
C28_OnlyThicknessDensityStyles ==
    pc = "analyzed" =>
        /\ prep_analysis.style \in {"clean_cad", "detailed_cad",
                                    "simple_line_drawing", "detailed_line_drawing"}
        /\ BaseParams(prep_analysis.style) # BaseParams("scanned")
        /\ prep_analysis.recommended_params.denoise_strength
              # BaseParams("scanned").denoise_strength
        /\ StyleWeights(prep_analysis.style) # StyleWeights("scanned")
        /\ StyleWeights(prep_analysis.style) # StyleWeights("mixed_style")

\* A raster of noise above 0.3 and walls of exactly 8 px, classified by
\* thickness and density all the same.
C28_Witness ==
    /\ pc = "analyzed"
    /\ gray.noise_level > 30
    /\ gray.wall_thickness = 80
    /\ gray.line_density = 500
    /\ prep_analysis.style = "detailed_line_drawing"


\* C29: the scale-context filter never empties the room list: whenever it
\* runs, every room whose area is at least the median survives, so at least
\* half of the rooms, and always the largest one, remain.
C29_ScaleFilterKeepsUpperHalf ==
    [][(pc = "step5" /\ Len(rooms) > 3) =>
         LET areas == [i \in DOMAIN rooms |-> rooms[i].area_pixels]
         IN  /\ rooms' # <<>>
             /\ \A i \in DOMAIN rooms :
                    2 * areas[i] >= Median2(areas)
                        => \E j \in DOMAIN rooms' : rooms'[j] = rooms[i]
             /\ 2 * Len(rooms') >= Len(rooms)
             /\ \E j \in DOMAIN rooms' :
                    \A i \in DOMAIN rooms :
                        rooms'[j].area_pixels >= areas[i]]_vars

\* The filter ran on more than three rooms, dropped some of them and kept
\* the largest.
C29_Witness ==
    /\ pc = "step6"
    /\ Len(valid_rooms) > 3
    /\ Len(rooms) < Len(valid_rooms)
    /\ \E j \in DOMAIN rooms :
          \A k \in DOMAIN valid_rooms :
              rooms[j].area_pixels >= contours[valid_rooms[k]].area2 \div 2


\* The matching built so far is one-to-one and every match has an IoU of at
\* least iou_threshold.
MatchesOneToOne ==
    /\ \A a, b \in DOMAIN matches :
          a # b => /\ matches[a].gt_idx # matches[b].gt_idx
                   /\ matches[a].det_idx # matches[b].det_idx
    /\ \A a \in DOMAIN matches :
          /\ FLeq(Frac(match_threshold, 100), matches[a].iou)
          /\ matches[a].iou =
                calculate_iou_normalized(
                    ground_truth_rooms[matches[a].gt_idx + 1].bounding_box_normalized,
                    match_detected[matches[a].det_idx + 1].bounding_box_normalized)

\* The matched and the unmatched indices partition the rooms of each list.
MatchesPartition ==
    LET gt_in == {matches[a].gt_idx : a \in DOMAIN matches}
        det_in == {matches[a].det_idx : a \in DOMAIN matches}
    IN  /\ gt_in \cap Range(unmatched_gt) = {}
        /\ gt_in \cup Range(unmatched_gt) = 0..(Len(ground_truth_rooms) - 1)
        /\ Cardinality(Range(unmatched_gt)) = Len(unmatched_gt)
        /\ det_in \cap Range(unmatched_det) = {}
        /\ det_in \cup Range(unmatched_det) = 0..(Len(match_detected) - 1)
        /\ Cardinality(Range(unmatched_det)) = Len(unmatched_det)

\* C30: match_rooms always terminates and returns a one-to-one matching:
\* each ground-truth room and each detected room appears in at most one
\* match, every match has IoU greater than or equal to iou_threshold, and the
\* matched and unmatched indices partition the ground-truth rooms and the
\* detected rooms.
C30_TerminatesWithOneToOneMatching ==
    /\ <>(pc = "matched")
    /\ [](pc \in {"match", "matching", "matched"} => MatchesOneToOne)
    /\ [](pc = "matched" => MatchesPartition)

\* A return where two detected rooms competed for one ground-truth room: one
\* match, one ground-truth room and one detected room left over.
C30_Witness ==
    /\ pc = "matched"
    /\ Len(ground_truth_rooms) = 2 /\ Len(match_detected) = 2
    /\ Len(matches) = 1
    /\ Len(unmatched_gt) = 1 /\ Len(unmatched_det) = 1
    /\ \E j \in DOMAIN match_detected :
          /\ j - 1 \in Range(unmatched_det)
          /\ FLeq(Frac(match_threshold, 100),
                  iou_matrix[matches[1].gt_idx + 1][j])
          /\ FLt(FZero, iou_matrix[matches[1].gt_idx + 1][j])

====
